---- MODULE Spec2Model ----
(***************************************************************************)
(* A model of the data-fetching operations of the expo-nba screens:        *)
(*   - the date-window aggregation of the schedule screen (fetchSchedule)  *)
(*     and of the team-detail screen (fetchTeamGames),                     *)
(*   - the news screen's fetchNews, which may run several times at once,   *)
(*   - the home screen's fetchTeams / fetchTodaysGames and its onRefresh.  *)
(*   - the odds screen's fetchTodaysGames, which transforms the odds feed. *)
(* Time is counted in whole hours since 2024-01-01T00:00Z.  A JavaScript   *)
(* Date is the instant (hours, UTC); its local fields are read through    *)
(* the device's time zone.                                                 *)
(***************************************************************************)
EXTENDS Integers, Naturals, Sequences, FiniteSets, TLC

(***************************************************************************)
(* Bounds of the model.                                                    *)
(***************************************************************************)
\* events the date responses may carry in total since the app was opened
MaxTotal == 3
\* games in one response of the odds feed
MaxGames == 2
\* fetch operations the news screen or the home screen may start
MaxOps == 3
MaxRequests == 3
MaxPresses == 3
MaxPageOps == 2

(***************************************************************************)
(* Program constants.                                                      *)
(***************************************************************************)
\* schedule.tsx: const D_PAST = 2
SCHEDULE_D_PAST == 2
\* schedule.tsx: const D_FUTURE = 5
SCHEDULE_D_FUTURE == 5
\* team-detail screen: const D_PAST = 10
TEAM_D_PAST == 10
\* team-detail screen: const D_FUTURE = 10
TEAM_D_FUTURE == 10

(***************************************************************************)
(* The calendar: toISOString() renders the UTC day of an instant.          *)
(***************************************************************************)
HoursPerDay == 24
EpochYear == 2024

IsLeap(y) == (y % 4 = 0 /\ y % 100 # 0) \/ y % 400 = 0

DaysInYear(y) == IF IsLeap(y) THEN 366 ELSE 365

DaysInMonth(y, m) ==
    IF m = 2 THEN (IF IsLeap(y) THEN 29 ELSE 28)
    ELSE IF m \in {4, 6, 9, 11} THEN 30 ELSE 31

RECURSIVE YearOfDay(_, _)
\* <<year, day of the year (0-based)>> of day number n counted from 1 January of y
YearOfDay(n, y) ==
    IF n < DaysInYear(y) THEN <<y, n>> ELSE YearOfDay(n - DaysInYear(y), y + 1)

RECURSIVE MonthOfDay(_, _, _)
\* <<month, day of the month>> of the 0-based day n of year y, counted from month m
MonthOfDay(n, y, m) ==
    IF n < DaysInMonth(y, m) THEN <<m, n + 1>>
    ELSE MonthOfDay(n - DaysInMonth(y, m), y, m + 1)

\* date.toISOString().split('T')[0].replace(/-/g, ''): the YYYYMMDD token of
\* the UTC day on which instant t falls, as the number its digits spell
IsoDateToken(t) ==
    LET yd == YearOfDay(t \div HoursPerDay, EpochYear)
        md == MonthOfDay(yd[2], yd[1], 1)
    IN  yd[1] * 10000 + md[1] * 100 + md[2]

(***************************************************************************)
(* Time zones.  A zone is a base offset and the transitions (instant, new  *)
(* offset) of 2024-2025, in ascending order.                               *)
(***************************************************************************)
ZoneUTC == [name |-> "UTC", base |-> 0, trans |-> << >>]

ZoneTokyo == [name |-> "Asia/Tokyo", base |-> 9, trans |-> << >>]

\* DST: 2024-03-10 07:00Z, 2024-11-03 06:00Z, 2025-03-09 07:00Z
ZoneNewYork ==
    [name |-> "America/New_York", base |-> -5,
     trans |-> << [at |-> 69 * 24 + 7, off |-> -4],
                  [at |-> 307 * 24 + 6, off |-> -5],
                  [at |-> 433 * 24 + 7, off |-> -4] >>]

Zones == {ZoneUTC, ZoneTokyo, ZoneNewYork}

\* the UTC offset in force in zone z at instant t
Offset(z, t) ==
    LET past == {k \in 1..Len(z.trans) : z.trans[k].at <= t}
    IN  IF past = {} THEN z.base
        ELSE z.trans[CHOOSE k \in past : \A j \in past : j <= k].off

ZoneOffsets(z) == {z.base} \cup {z.trans[k].off : k \in 1..Len(z.trans)}

\* the local wall clock (hours) of instant t
LocalTime(z, t) == t + Offset(z, t)

\* the instant of local wall clock w: the earlier instant when w happens twice,
\* read with the offset before the transition when w is skipped
LocalToInstant(z, w) ==
    LET valid == {o \in ZoneOffsets(z) : Offset(z, w - o) = o}
        maxOff == CHOOSE o \in ZoneOffsets(z) : \A p \in ZoneOffsets(z) : p <= o
    IN  IF valid # {}
        THEN w - (CHOOSE o \in valid : \A p \in valid : p <= o)
        ELSE w - Offset(z, w - maxOff)

\* the local calendar day (day number) of instant t: what getDate() and
\* toDateString() read
LocalDay(z, t) == LocalTime(z, t) \div HoursPerDay

\* const date = new Date(today); date.setDate(today.getDate() + i):
\* the same local wall-clock time, i local days later
SetDatePlus(z, t, i) == LocalToInstant(z, LocalTime(z, t) + i * HoursPerDay)

RECURSIVE DateLoop(_, _, _, _)
\* for (let i = from; i < to; i++) dates.push(token of today + i days)
DateLoop(z, today, i, to) ==
    IF i < to
    THEN <<IsoDateToken(SetDatePlus(z, today, i))>> \o DateLoop(z, today, i + 1, to)
    ELSE << >>

\* the loop written with i <= D_FUTURE
BuildDatesInclusive(z, today, dPast, dFuture) == DateLoop(z, today, -dPast, dFuture + 1)

\* the dates array of one run
BuildDates(z, today, dPast, dFuture) == DateLoop(z, today, -dPast, dFuture)

(***************************************************************************)
(* Upstream data.  A game is [id, date, home, away, ...]: date is the      *)
(* instant of its own date field; home and away are the team ids of its    *)
(* two competitors, state and completed are those of its status.type, and  *)
(* homeScore and awayScore the score texts of the competitors.  An events  *)
(* array may also hold a null entry.  A text is a sequence of characters;  *)
(* Undefined stands for JavaScript's undefined in a field that otherwise   *)
(* holds a text or an id.                                                  *)
(***************************************************************************)
Undefined == "undefined"

NoText == [present |-> FALSE, text |-> << >>]

Text(t) == [present |-> TRUE, text |-> t]

GameIds == 1..3

\* the id route parameters the team-detail screen is opened with
RouteTeamIds == {3}

\* the hours between the start of a run and the game, by game id
GameOffset(id) ==
    CASE id = 1 -> -26
      [] id = 2 -> 1
      [] id = 3 -> 6
      [] id = 4 -> 1
      [] OTHER -> 7 * 24

GameHome(id) == CASE id = 1 -> 1 [] id = 2 -> 3 [] id = 3 -> 2 [] OTHER -> 2

GameAway(id) == CASE id = 1 -> 2 [] id = 2 -> 1 [] id = 3 -> 3 [] OTHER -> 1

\* status.type.state of the game: game 1 is over, the others are to come
GameState(id) == IF id = 1 THEN "post" ELSE "pre"

\* the score texts upstream sends: a final score, "0" before the game, or none
GameHomeScore(id) ==
    CASE id = 1 -> Text(<<"1", "1", "0">>) [] id = 2 -> Text(<<"0">>) [] OTHER -> NoText

GameAwayScore(id) ==
    CASE id = 1 -> Text(<<"9", "8">>) [] id = 2 -> Text(<<"0">>) [] OTHER -> NoText

UpstreamGame(id, base) ==
    [id |-> id, date |-> base + GameOffset(id), home |-> GameHome(id), away |-> GameAway(id),
     state |-> GameState(id), completed |-> (GameState(id) = "post"),
     homeScore |-> GameHomeScore(id), awayScore |-> GameAwayScore(id)]

NullEvent ==
    [id |-> 0, date |-> 0, home |-> 0, away |-> 0, state |-> "", completed |-> FALSE,
     homeScore |-> NoText, awayScore |-> NoText]

IsNullEvent(g) == g.id = 0

\* what one events array may hold
EventPool(base) == {UpstreamGame(id, base) : id \in GameIds} \cup {NullEvent}

\* the events arrays of at most n entries
EventSeqs(base, n) == UNION {[1..k -> EventPool(base)] : k \in 0..n}

\* the hours a run may take from its start to its split into upcoming and past
ElapsedChoices == {0, 1, 6}

\* where and when the app is opened
StartPoints ==
    { <<ZoneUTC, 305 * 24 + 12>>,
      <<ZoneNewYork, 305 * 24 + 23>> }

NoError == "null"
ScheduleErrorText == "Failed to load schedule. Please try again."

(***************************************************************************)
(* Sorting.  Array.prototype.sort(compareFn) is a stable sort: an element  *)
(* goes before the first one that compareFn orders after it.               *)
(***************************************************************************)
\* the place of x in the sorted array, given cmp[k] = compareFn(sorted[k], x)
InsertAt(sorted, x, cmp) ==
    LET after == {k \in 1..Len(sorted) : cmp[k] > 0}
        p == IF after = {} THEN Len(sorted) + 1
             ELSE CHOOSE k \in after : \A j \in after : k <= j
    IN  SubSeq(sorted, 1, p - 1) \o <<x>> \o SubSeq(sorted, p, Len(sorted))

\* the comparator with its operands exchanged
CompareDateSwapped(a, b) == b.date - a.date

\* (a, b) => new Date(a.date).getTime() - new Date(b.date).getTime()
CompareDateAsc(a, b) == a.date - b.date

\* (a, b) => new Date(b.date).getTime() - new Date(a.date).getTime()
CompareDateDesc(a, b) == b.date - a.date

\* games.sort(ascending by date)
SortGamesAsc(s) ==
    LET F[i \in 0..Len(s)] ==
            IF i = 0 THEN << >>
            ELSE InsertAt(F[i - 1], s[i],
                          [k \in 1..Len(F[i - 1]) |-> CompareDateAsc(F[i - 1][k], s[i])])
    IN  F[Len(s)]

\* games.sort(descending by date)
SortGamesDesc(s) ==
    LET F[i \in 0..Len(s)] ==
            IF i = 0 THEN << >>
            ELSE InsertAt(F[i - 1], s[i],
                          [k \in 1..Len(F[i - 1]) |-> CompareDateDesc(F[i - 1][k], s[i])])
    IN  F[Len(s)]

(***************************************************************************)
(* Grouping of the schedule screen.                                        *)
(***************************************************************************)
\* the key taken from the ISO text of the date: the UTC day
DateKeyUtc(z, g) == g.date \div HoursPerDay

\* new Date(game.date).toDateString(): the key names the local calendar day
DateKey(z, g) == LocalDay(z, g.date)

\* new Date(group.date).getTime(): a toDateString() text parses to the local
\* midnight of its day
KeyTime(z, key) == LocalToInstant(z, key * HoursPerDay)

\* a grouping that starts the group of a key afresh at each game of that key
GroupByDateOverwriting(z, games) ==
    LET F[i \in 0..Len(games)] ==
            IF i = 0 THEN << >>
            ELSE LET acc == F[i - 1]
                     key == DateKey(z, games[i])
                     at == {k \in 1..Len(acc) : acc[k].date = key}
                 IN  IF at = {}
                     THEN Append(acc, [date |-> key, games |-> <<games[i]>>])
                     ELSE [k \in 1..Len(acc) |->
                              IF k \in at
                              THEN [acc[k] EXCEPT !.games = <<games[i]>>]
                              ELSE acc[k]]
    IN  F[Len(games)]

\* allGames.forEach(game => groupedGames[gameDate].push(game)), read back with
\* Object.entries: the groups in the order their keys were first inserted
GroupByDate(z, games) ==
    LET F[i \in 0..Len(games)] ==
            IF i = 0 THEN << >>
            ELSE LET acc == F[i - 1]
                     key == DateKey(z, games[i])
                     at == {k \in 1..Len(acc) : acc[k].date = key}
                 IN  IF at = {}
                     THEN Append(acc, [date |-> key, games |-> <<games[i]>>])
                     ELSE [k \in 1..Len(acc) |->
                              IF k \in at
                              THEN [acc[k] EXCEPT !.games = Append(@, games[i])]
                              ELSE acc[k]]
    IN  F[Len(games)]

\* (a, b) => new Date(a.date).getTime() - new Date(b.date).getTime(), on groups
CompareDays(z, a, b) == KeyTime(z, a.date) - KeyTime(z, b.date)

\* .sort(ascending by the group's date)
SortDays(z, s) ==
    LET F[i \in 0..Len(s)] ==
            IF i = 0 THEN << >>
            ELSE InsertAt(F[i - 1], s[i],
                          [k \in 1..Len(F[i - 1]) |-> CompareDays(z, F[i - 1][k], s[i])])
    IN  F[Len(s)]

\* scheduleArray: every group with its games sorted, the groups sorted
BuildSchedule(z, games) ==
    LET groups == GroupByDate(z, games)
    IN  SortDays(z, [k \in 1..Len(groups) |->
                        [date |-> groups[k].date, games |-> SortGamesAsc(groups[k].games)]])

(***************************************************************************)
(* Filtering and splitting of the team-detail screen.                      *)
(***************************************************************************)
SelectSeq2(s, keep) ==
    LET F[i \in 0..Len(s)] ==
            IF i = 0 THEN << >>
            ELSE IF keep[i] THEN Append(F[i - 1], s[i]) ELSE F[i - 1]
    IN  F[Len(s)]

\* game.competitions[0].competitors.some(comp => comp.team.id === id)
InvolvesTeam(g, id) == g.home = id \/ g.away = id

\* the comparison written with >=
IsUpcomingOrNow(g, now) == g.date >= now

\* new Date(game.date) > now
IsUpcoming(g, now) == g.date > now

\* new Date(game.date) <= now
IsPast(g, now) == g.date <= now

TeamGamesOf(games, id) ==
    SelectSeq2(games, [i \in 1..Len(games) |-> InvolvesTeam(games[i], id)])

UpcomingOf(games, id, now) ==
    LET tg == TeamGamesOf(games, id)
    IN  SortGamesAsc(SelectSeq2(tg, [i \in 1..Len(tg) |-> IsUpcoming(tg[i], now)]))

PastOf(games, id, now) ==
    LET tg == TeamGamesOf(games, id)
    IN  SortGamesDesc(SelectSeq2(tg, [i \in 1..Len(tg) |-> IsPast(tg[i], now)]))

(***************************************************************************)
(* State.                                                                  *)
(***************************************************************************)
VARIABLES
    \* the device and the route
    screen,         \* "schedule" or "team": the screen that is mounted
    zone,           \* the device's time zone
    teamId,         \* the id route parameter of the team-detail screen
    clock,          \* the instant at which the runs start
    \* one run of fetchSchedule / fetchTeamGames
    pc,             \* "idle" (not mounted yet), "await" (a request is awaited), "done"
    today,          \* const today = new Date()
    dates,          \* const dates
    idx,            \* the place in dates of the for-of loop
    inflight,       \* the date requests issued and not completed
    allGames,       \* const allGames
    \* the component's state
    schedule, loading, refreshing, error, upcomingGames, pastGames,
    \* history
    requestLog,     \* the date tokens requested by the run, in the order of the requests
    someFailed,     \* a date request of the run has failed
    skewed,         \* a request of the run returned a game of another calendar day
    nowRead,        \* const now = new Date() of the run's split
    used,           \* the events delivered since the app was opened
    \* the news screen
    articles, newsLoading, newsRefreshing, newsError,
    newsStarted,    \* the calls of fetchNews so far
    newsPending,    \* the calls whose request is in flight
    newsLog,        \* history: the completed calls, [run, ok, articles], in order
    \* the home screen
    teams, todaysGames, homeLoading, gamesLoading, homeRefreshing,
    homeOps,        \* the mount and the refreshes: [kind, teams, games, settled]
    lastTeams,      \* history: the list of the last fetchTeams that succeeded
    lastGames,      \* history: the outcome of the last fetchTodaysGames to complete
    \* the odds screen (the home screen fed by the proxied odds feed)
    oddsGames,      \* todaysGames: the normalized games
    oddsLoading, oddsRefreshing,
    oddsPc,         \* "idle", "await" (the request is awaited), "done"
    oddsRuns,       \* the calls of fetchTodaysGames so far
    oddsFeed,       \* history: response.data of the last response
    oddsThrew,      \* history: the transformation of the last response threw
    \* the game card being rendered
    cardScreen,     \* "none", or the screen whose card it is: "home", "odds", "schedule"
    cardItem,       \* the item given to the render function
    cardView,       \* what the card shows: its status colour and its texts
    \* the proxy server
    proxyRunning,   \* the process is alive
    proxyPhase,     \* per incoming request: "none", "await" (the upstream request), "done"
    proxyCalls,     \* per incoming request: the upstream requests made for it
    proxyData,      \* history, per incoming request: the upstream outcome [ok, text]
    proxySent,      \* per incoming request: the responses sent, [status, body], in order
    \* the game-detail modal of the schedule screen
    selectedGameForDetail,  \* 0 for null, or the id of the game pressed last
    isDetailModalVisible,
    detailedGameData,       \* [present, event]: null, or the summary of the event
    isLoadingGameDetails,
    detailError,
    detailCalls,    \* the calls of handleGamePress, [game, done], in order
    \* the team-detail screen: the four fetches of its effect and of its refresh
    team,           \* [present, id]: null or undefined, or the team of the response
    roster,         \* the athletes of the last roster response
    teamInfo,       \* [present, id]: null, or the team of the last info response
    pageLoading, pageRefreshing,
    pageOps,        \* the mount and the refreshes: [details, roster, info, at], where
                    \* at counts the date requests of fetchTeamGames that have completed
    \* the teams tab
    tabTeams, tabLoading, tabRefreshing,
    tabCalls        \* the calls of fetchTeams: "pending", "ok" or "failed", in order

envVars == <<screen, zone, teamId>>
runVars == <<pc, today, dates, idx, inflight, allGames>>
viewVars == <<schedule, loading, refreshing, error, upcomingGames, pastGames>>
histVars == <<requestLog, someFailed, skewed, nowRead, used>>
aggVars == <<envVars, clock, runVars, viewVars, histVars>>
newsVars == <<articles, newsLoading, newsRefreshing, newsError,
              newsStarted, newsPending, newsLog>>
homeVars == <<teams, todaysGames, homeLoading, gamesLoading, homeRefreshing,
              homeOps, lastTeams, lastGames>>
cardVars == <<cardScreen, cardItem, cardView>>
proxyVars == <<proxyRunning, proxyPhase, proxyCalls, proxyData, proxySent>>
modalVars == <<selectedGameForDetail, isDetailModalVisible, detailedGameData,
               isLoadingGameDetails, detailError, detailCalls>>
pageVars == <<team, roster, teamInfo, pageLoading, pageRefreshing, pageOps>>
tabVars == <<tabTeams, tabLoading, tabRefreshing, tabCalls>>
extraVars == <<cardVars, proxyVars, modalVars, pageVars, tabVars>>
oddsVars == <<oddsGames, oddsLoading, oddsRefreshing, oddsPc, oddsRuns, oddsFeed, oddsThrew>>
vars == <<aggVars, newsVars, homeVars, oddsVars, extraVars>>

ProxyRequests == 1 .. MaxRequests

\* team and teamInfo before any response: null
NoTeam == [present |-> FALSE, id |-> 0]

\* detailedGameData before any summary has arrived: null
NoSummary == [present |-> FALSE, event |-> 0]

NoOutcome == [ok |-> FALSE, games |-> << >>, run |-> 0]

\* the state of the screens' components before the mount effects run
Unmounted ==
    /\ pc = "idle"
    /\ today = 0
    /\ dates = << >>
    /\ idx = 0
    /\ inflight = 0
    /\ allGames = << >>
    /\ schedule = << >>
    /\ loading = TRUE
    /\ refreshing = FALSE
    /\ error = NoError
    /\ upcomingGames = << >>
    /\ pastGames = << >>
    /\ requestLog = << >>
    /\ someFailed = FALSE
    /\ skewed = FALSE
    /\ nowRead = 0
    /\ used = 0
    /\ articles = << >>
    /\ newsLoading = TRUE
    /\ newsRefreshing = FALSE
    /\ newsError = NoError
    /\ newsStarted = 0
    /\ newsPending = {}
    /\ newsLog = << >>
    /\ teams = << >>
    /\ todaysGames = << >>
    /\ homeLoading = TRUE
    /\ gamesLoading = TRUE
    /\ homeRefreshing = FALSE
    /\ homeOps = << >>
    /\ lastTeams = << >>
    /\ lastGames = NoOutcome
    /\ oddsGames = << >>
    /\ oddsLoading = TRUE
    /\ oddsRefreshing = FALSE
    /\ oddsPc = "idle"
    /\ oddsRuns = 0
    /\ oddsFeed = [present |-> FALSE, list |-> << >>]
    /\ oddsThrew = FALSE
    /\ cardScreen = "none"
    /\ cardItem = [state |-> "", completed |-> FALSE, status |-> Undefined, gameTime |-> << >>,
                   odds |-> [nan |-> TRUE, val |-> 0]]
    /\ cardView = [odds |-> << >>, color |-> "", time |-> << >>]
    /\ proxyRunning = TRUE
    /\ proxyPhase = [r \in ProxyRequests |-> "none"]
    /\ proxyCalls = [r \in ProxyRequests |-> 0]
    /\ proxyData = [r \in ProxyRequests |-> [ok |-> FALSE, text |-> << >>]]
    /\ proxySent = [r \in ProxyRequests |-> << >>]
    /\ selectedGameForDetail = 0
    /\ isDetailModalVisible = FALSE
    /\ detailedGameData = NoSummary
    /\ isLoadingGameDetails = FALSE
    /\ detailError = NoError
    /\ detailCalls = << >>
    /\ team = NoTeam
    /\ roster = << >>
    /\ teamInfo = NoTeam
    /\ pageLoading = TRUE
    /\ pageRefreshing = FALSE
    /\ pageOps = << >>
    /\ tabTeams = << >>
    /\ tabLoading = TRUE
    /\ tabRefreshing = FALSE
    /\ tabCalls = << >>

\* the schedule screen or the team-detail screen is opened
Init ==
    /\ screen \in {"schedule", "team"}
    /\ \E sp \in StartPoints : zone = sp[1] /\ clock = sp[2]
    /\ teamId \in (IF screen = "team" THEN RouteTeamIds ELSE {0})
    /\ Unmounted

(***************************************************************************)
(* The start of a run: everything up to the first await.                   *)
(***************************************************************************)
\* the requests of all the dates issued together, as Promise.all over
\* dates.map would
BeginWindowAllAtOnce(dPast, dFuture) ==
    /\ today' = clock
    /\ dates' = BuildDates(zone, clock, dPast, dFuture)
    /\ allGames' = << >>
    /\ idx' = 1
    /\ inflight' = Len(dates')
    /\ requestLog' = dates'
    /\ pc' = "await"
    /\ someFailed' = FALSE
    /\ skewed' = FALSE
    /\ UNCHANGED <<envVars, clock, nowRead, used, newsVars, homeVars, oddsVars, extraVars>>

\* the dates array and the first pass of "for (const dateStr of dates)":
\* axios.get for dates[0] is issued and awaited
BeginWindow(dPast, dFuture) ==
    /\ today' = clock
    /\ dates' = BuildDates(zone, clock, dPast, dFuture)
    /\ allGames' = << >>
    /\ idx' = 1
    /\ inflight' = 1
    /\ requestLog' = <<dates'[1]>>
    /\ pc' = "await"
    /\ someFailed' = FALSE
    /\ skewed' = FALSE
    /\ UNCHANGED <<envVars, clock, nowRead, used, newsVars, homeVars, oddsVars, extraVars>>

\* fetchSchedule, to its first await
FetchScheduleCall ==
    /\ error' = NoError
    /\ loading' = TRUE
    /\ BeginWindow(SCHEDULE_D_PAST, SCHEDULE_D_FUTURE)
    /\ UNCHANGED <<schedule, upcomingGames, pastGames>>

\* fetchTeamGames, to its first await
FetchTeamGamesCall ==
    /\ BeginWindow(TEAM_D_PAST, TEAM_D_FUTURE)
    /\ UNCHANGED <<schedule, loading, error, upcomingGames, pastGames>>

\* useEffect(() => { fetchSchedule(); }, [])
ScheduleMount ==
    /\ screen = "schedule"
    /\ pc = "idle"
    /\ FetchScheduleCall
    /\ UNCHANGED refreshing

\* onRefresh of the schedule's RefreshControl, rendered when neither the
\* loading view nor the error view is
ScheduleOnRefresh ==
    /\ screen = "schedule"
    /\ pc = "done"
    /\ ~loading
    /\ error = NoError
    /\ refreshing' = TRUE
    /\ FetchScheduleCall

\* onPress={fetchSchedule}: "Retry" of the error view, "Refresh Now" of the
\* empty list
ScheduleRetryPress ==
    /\ screen = "schedule"
    /\ pc = "done"
    /\ ~loading
    /\ (error # NoError \/ schedule = << >>)
    /\ FetchScheduleCall
    /\ UNCHANGED refreshing

\* useEffect(() => { if (id) Promise.all([..., fetchTeamGames(), ...]) }, [id]):
\* the fetchTeamGames of it
TeamMount ==
    /\ screen = "team"
    /\ pc = "idle"
    /\ FetchTeamGamesCall
    /\ UNCHANGED refreshing

\* onRefresh of the team-detail screen: setRefreshing(true) and its
\* fetchTeamGames
TeamOnRefresh ==
    /\ screen = "team"
    /\ pc = "done"
    /\ ~loading
    /\ refreshing' = TRUE
    /\ FetchTeamGamesCall

(***************************************************************************)
(* The completion of a date request and what runs after it.                *)
(***************************************************************************)
HasNull(games) == \E k \in 1..Len(games) : IsNullEvent(games[k])

\* the YYYYMMDD token of the local calendar day of a game
OwnDayToken(z, g) == IsoDateToken(LocalDay(z, g.date) * HoursPerDay)

\* a text in a condition: undefined and '' are falsy
Truthy(x) == x.present /\ x.text # << >>

\* renderGame of the schedule screen: {homeTeam?.score && (...)}
ScheduleShowsScore(score) == Truthy(score)

\* renderGame of the team-detail screen: {game.status.type.completed && (...)}
TeamShowsScore(game) == game.completed

\* the rest of fetchSchedule after its loop: grouping, setSchedule or the outer
\* catch, and the finally block
FinishSchedule(games) ==
    /\ IF HasNull(games)
       THEN error' = ScheduleErrorText /\ UNCHANGED schedule
       ELSE schedule' = BuildSchedule(zone, games) /\ UNCHANGED error
    /\ loading' = FALSE
    /\ refreshing' = FALSE
    /\ UNCHANGED <<upcomingGames, pastGames, nowRead>>

\* the rest of fetchTeamGames after its loop: filter, split, the two setters or
\* the outer catch, and the finally block
FinishTeamGames(games) ==
    /\ IF HasNull(games)
       THEN UNCHANGED <<upcomingGames, pastGames, nowRead>>
       ELSE \E elapsed \in ElapsedChoices :
                /\ nowRead' = today + elapsed
                /\ upcomingGames' = UpcomingOf(games, teamId, today + elapsed)
                /\ pastGames' = PastOf(games, teamId, today + elapsed)
    /\ loading' = FALSE
    /\ refreshing' = FALSE
    /\ UNCHANGED <<schedule, error>>

\* the collection shown after every pass of the loop instead of once at the end
AfterDateStoresEachPass(games) ==
    /\ allGames' = games
    /\ IF idx < Len(dates)
       THEN /\ idx' = idx + 1
            /\ inflight' = 1
            /\ requestLog' = Append(requestLog, dates[idx + 1])
            /\ pc' = "await"
            /\ IF screen = "schedule" /\ ~HasNull(games)
               THEN schedule' = BuildSchedule(zone, games)
               ELSE UNCHANGED schedule
            /\ UNCHANGED <<loading, refreshing, error, upcomingGames, pastGames, nowRead>>
       ELSE /\ inflight' = 0
            /\ pc' = "done"
            /\ UNCHANGED <<idx, requestLog>>
            /\ IF screen = "schedule"
               THEN FinishSchedule(games)
               ELSE FinishTeamGames(games)
    /\ UNCHANGED <<envVars, clock, today, dates, newsVars, homeVars, oddsVars, extraVars>>

\* after the try/catch of one date: the next pass of the loop issues the next
\* request, or the loop is over and the function runs to its end
AfterDate(games) ==
    /\ allGames' = games
    /\ IF idx < Len(dates)
       THEN /\ idx' = idx + 1
            /\ inflight' = 1
            /\ requestLog' = Append(requestLog, dates[idx + 1])
            /\ pc' = "await"
            /\ UNCHANGED <<viewVars, nowRead>>
       ELSE /\ inflight' = 0
            /\ pc' = "done"
            /\ UNCHANGED <<idx, requestLog>>
            /\ IF screen = "schedule"
               THEN FinishSchedule(games)
               ELSE FinishTeamGames(games)
    /\ UNCHANGED <<envVars, clock, today, dates, newsVars, homeVars, oddsVars, extraVars>>

\* the awaited axios.get resolves: if (response.data?.events)
\* allGames.push(...response.data.events)
DateResponse(hasEvents, events) ==
    /\ pc = "await"
    /\ inflight > 0
    /\ used + Len(events) <= MaxTotal
    /\ used' = used + Len(events)
    /\ skewed' = (skewed \/ (hasEvents /\ \E k \in 1..Len(events) :
                     /\ ~IsNullEvent(events[k])
                     /\ OwnDayToken(zone, events[k]) # dates[idx]))
    /\ UNCHANGED someFailed
    /\ AfterDate(IF hasEvents THEN allGames \o events ELSE allGames)

\* the rejection left to the outer catch: the run ends there
DateErrorAborts ==
    /\ pc = "await"
    /\ inflight > 0
    /\ someFailed' = TRUE
    /\ inflight' = 0
    /\ pc' = "done"
    /\ error' = (IF screen = "schedule" THEN ScheduleErrorText ELSE error)
    /\ loading' = FALSE
    /\ refreshing' = FALSE
    /\ UNCHANGED <<envVars, clock, today, dates, idx, allGames, schedule,
                   upcomingGames, pastGames, requestLog, skewed, nowRead, used,
                   newsVars, homeVars, oddsVars, extraVars>>

\* the awaited axios.get rejects: catch (dateError) { console.log(...) }
DateError ==
    /\ pc = "await"
    /\ inflight > 0
    /\ someFailed' = TRUE
    /\ UNCHANGED <<used, skewed>>
    /\ AfterDate(allGames)

Next ==
    \/ ScheduleMount
    \/ ScheduleOnRefresh
    \/ ScheduleRetryPress
    \/ TeamMount
    \/ TeamOnRefresh
    \/ \E ev \in EventSeqs(today, MaxTotal - used) : DateResponse(TRUE, ev)
    \/ DateResponse(FALSE, << >>)
    \/ DateError

Spec == Init /\ [][Next]_vars

(***************************************************************************)
(* The news screen.  fetchNews has one await; Retry and "Refresh Now" call *)
(* it directly, the pull-to-refresh through onRefresh.                     *)
(***************************************************************************)
NewsErrorText == "Failed to load news. Please try again."

\* response.data.articles: absent, or an array of articles
NewsPayloads ==
    { [present |-> FALSE, list |-> << >>],
      [present |-> TRUE, list |-> << >>],
      [present |-> TRUE, list |-> <<1>>],
      [present |-> TRUE, list |-> <<2, 1>>] }

\* response.data.articles || []
ArticlesOrEmpty(p) == IF p.present THEN p.list ELSE << >>

\* fetchNews up to its await
FetchNewsCall ==
    /\ newsStarted < MaxOps
    /\ newsError' = NoError
    /\ newsStarted' = newsStarted + 1
    /\ newsPending' = newsPending \cup {newsStarted + 1}
    /\ UNCHANGED <<articles, newsLoading, newsLog, aggVars, homeVars, oddsVars, extraVars>>

\* useEffect(() => { fetchNews(); }, [])
NewsMount ==
    /\ screen = "news"
    /\ newsStarted = 0
    /\ FetchNewsCall
    /\ UNCHANGED newsRefreshing

\* the RefreshControl of the article list
NewsOnRefresh ==
    /\ screen = "news"
    /\ newsStarted > 0
    /\ ~newsLoading
    /\ newsError = NoError
    /\ ~newsRefreshing
    /\ newsRefreshing' = TRUE
    /\ FetchNewsCall

\* the Retry button of the error view
NewsRetryPress ==
    /\ screen = "news"
    /\ ~newsLoading
    /\ newsError # NoError
    /\ FetchNewsCall
    /\ UNCHANGED newsRefreshing

\* the "Refresh Now" button of the empty list
NewsRefreshNowPress ==
    /\ screen = "news"
    /\ newsStarted > 0
    /\ ~newsLoading
    /\ newsError = NoError
    /\ articles = << >>
    /\ FetchNewsCall
    /\ UNCHANGED newsRefreshing

\* a call stores its response only when no later call has been started
NewsResponseLatestOnly(r, p) ==
    /\ r \in newsPending
    /\ articles' = (IF r = newsStarted THEN ArticlesOrEmpty(p) ELSE articles)
    /\ newsLoading' = FALSE
    /\ newsRefreshing' = FALSE
    /\ newsPending' = newsPending \ {r}
    /\ newsLog' = Append(newsLog, [run |-> r, ok |-> TRUE, payload |-> p])
    /\ UNCHANGED <<newsError, newsStarted, aggVars, homeVars, oddsVars, extraVars>>

\* the request of call r resolves: setArticles, then the finally block
NewsResponse(r, p) ==
    /\ r \in newsPending
    /\ articles' = ArticlesOrEmpty(p)
    /\ newsLoading' = FALSE
    /\ newsRefreshing' = FALSE
    /\ newsPending' = newsPending \ {r}
    /\ newsLog' = Append(newsLog, [run |-> r, ok |-> TRUE, payload |-> p])
    /\ UNCHANGED <<newsError, newsStarted, aggVars, homeVars, oddsVars, extraVars>>

\* a catch block that also empties the list
NewsFailureClears(r) ==
    /\ r \in newsPending
    /\ newsError' = NewsErrorText
    /\ articles' = << >>
    /\ newsLoading' = FALSE
    /\ newsRefreshing' = FALSE
    /\ newsPending' = newsPending \ {r}
    /\ newsLog' = Append(newsLog, [run |-> r, ok |-> FALSE,
                                   payload |-> [present |-> FALSE, list |-> << >>]])
    /\ UNCHANGED <<newsStarted, aggVars, homeVars, oddsVars, extraVars>>

\* the request of call r rejects: setError, then the finally block
NewsFailure(r) ==
    /\ r \in newsPending
    /\ newsError' = NewsErrorText
    /\ newsLoading' = FALSE
    /\ newsRefreshing' = FALSE
    /\ newsPending' = newsPending \ {r}
    /\ newsLog' = Append(newsLog, [run |-> r, ok |-> FALSE,
                                   payload |-> [present |-> FALSE, list |-> << >>]])
    /\ UNCHANGED <<articles, newsStarted, aggVars, homeVars, oddsVars, extraVars>>

InitNews ==
    /\ screen = "news"
    /\ zone = ZoneUTC
    /\ clock = 0
    /\ teamId = 0
    /\ Unmounted

NextNews ==
    \/ NewsMount
    \/ NewsOnRefresh
    \/ NewsRetryPress
    \/ NewsRefreshNowPress
    \/ \E r \in 1..MaxOps : \E p \in NewsPayloads : NewsResponse(r, p)
    \/ \E r \in 1..MaxOps : NewsFailure(r)

SpecNews == InitNews /\ [][NextNews]_vars

(***************************************************************************)
(* The home screen.  The mount effect and every refresh start fetchTeams   *)
(* and fetchTodaysGames together; each has one await.                      *)
(***************************************************************************)
TeamA == [id |-> 1, conference |-> "Western", wins |-> 5]
TeamB == [id |-> 2, conference |-> "Eastern", wins |-> 0]
TeamC == [id |-> 3, conference |-> "Eastern", wins |-> 7]

\* response.data.teams: absent, or an array of teams
TeamsPayloads ==
    { [present |-> FALSE, list |-> << >>],
      [present |-> TRUE, list |-> <<TeamA, TeamB, TeamC>>],
      [present |-> TRUE, list |-> <<TeamC, TeamA>>] }

\* response.data.games: absent, or an array of games
OddsPayloads ==
    { [present |-> FALSE, list |-> << >>],
      [present |-> TRUE, list |-> <<1>>],
      [present |-> TRUE, list |-> <<2, 1>>] }

\* the comparator of fetchTeams: the conference first, then the wins
CompareTeams(a, b) ==
    IF a.conference # b.conference
    THEN (IF a.conference = "Eastern" THEN -1 ELSE 1)
    ELSE b.wins - a.wins

\* (response.data.teams || []).sort(...)
SortTeams(p) ==
    LET s == IF p.present THEN p.list ELSE << >>
        F[i \in 0..Len(s)] ==
            IF i = 0 THEN << >>
            ELSE InsertAt(F[i - 1], s[i],
                          [k \in 1..Len(F[i - 1]) |-> CompareTeams(F[i - 1][k], s[i])])
    IN  F[Len(s)]

\* response.data.games || []
GamesOrEmpty(p) == IF p.present THEN p.list ELSE << >>

NewOp(kind) == [kind |-> kind, teams |-> "pending", games |-> "pending", settled |-> FALSE]

\* Promise.all([...]).finally: a refresh settles once both its calls have returned
Settle(op) ==
    IF op.kind = "refresh" /\ op.teams # "pending" /\ op.games # "pending"
    THEN [op EXCEPT !.settled = TRUE]
    ELSE op

\* the refreshing flag after operation k has become op
RefreshingAfter(op) == IF Settle(op).settled THEN FALSE ELSE homeRefreshing

\* useEffect(() => { fetchTeams(); fetchTodaysGames(); }, [])
HomeMount ==
    /\ screen = "home"
    /\ homeOps = << >>
    /\ homeOps' = <<NewOp("mount")>>
    /\ UNCHANGED <<teams, todaysGames, homeLoading, gamesLoading, homeRefreshing,
                   lastTeams, lastGames, aggVars, newsVars, oddsVars, extraVars>>

\* the RefreshControl of the home screen
HomeOnRefresh ==
    /\ screen = "home"
    /\ homeOps # << >>
    /\ Len(homeOps) < MaxOps
    /\ ~homeLoading
    /\ ~homeRefreshing
    /\ homeRefreshing' = TRUE
    /\ homeOps' = Append(homeOps, NewOp("refresh"))
    /\ UNCHANGED <<teams, todaysGames, homeLoading, gamesLoading,
                   lastTeams, lastGames, aggVars, newsVars, oddsVars, extraVars>>

\* fetchTeams of operation k: the request resolves
TeamsResponse(k, p) ==
    /\ k \in 1..Len(homeOps)
    /\ homeOps[k].teams = "pending"
    /\ LET op == [homeOps[k] EXCEPT !.teams = "ok"]
       IN  /\ homeOps' = [homeOps EXCEPT ![k] = Settle(op)]
           /\ homeRefreshing' = RefreshingAfter(op)
    /\ teams' = SortTeams(p)
    /\ homeLoading' = FALSE
    /\ lastTeams' = SortTeams(p)
    /\ UNCHANGED <<todaysGames, gamesLoading, lastGames, aggVars, newsVars, oddsVars, extraVars>>

\* fetchTeams lets the rejection out: Promise.all rejects at once
TeamsFailureRethrows(k) ==
    /\ k \in 1..Len(homeOps)
    /\ homeOps[k].teams = "pending"
    /\ homeOps' = [homeOps EXCEPT ![k] =
                      [@ EXCEPT !.teams = "failed", !.settled = (@ \/ homeOps[k].kind = "refresh")]]
    /\ homeRefreshing' = (IF homeOps[k].kind = "refresh" /\ ~homeOps[k].settled
                          THEN FALSE ELSE homeRefreshing)
    /\ homeLoading' = FALSE
    /\ UNCHANGED <<teams, todaysGames, gamesLoading, lastTeams, lastGames,
                   aggVars, newsVars, oddsVars, extraVars>>

\* fetchTeams of operation k: the request rejects, the catch block logs
TeamsFailure(k) ==
    /\ k \in 1..Len(homeOps)
    /\ homeOps[k].teams = "pending"
    /\ LET op == [homeOps[k] EXCEPT !.teams = "failed"]
       IN  /\ homeOps' = [homeOps EXCEPT ![k] = Settle(op)]
           /\ homeRefreshing' = RefreshingAfter(op)
    /\ homeLoading' = FALSE
    /\ UNCHANGED <<teams, todaysGames, gamesLoading, lastTeams, lastGames,
                   aggVars, newsVars, oddsVars, extraVars>>

\* fetchTodaysGames of operation k: the request resolves
GamesResponse(k, p) ==
    /\ k \in 1..Len(homeOps)
    /\ homeOps[k].games = "pending"
    /\ LET op == [homeOps[k] EXCEPT !.games = "ok"]
       IN  /\ homeOps' = [homeOps EXCEPT ![k] = Settle(op)]
           /\ homeRefreshing' = RefreshingAfter(op)
    /\ todaysGames' = GamesOrEmpty(p)
    /\ gamesLoading' = FALSE
    /\ lastGames' = [ok |-> TRUE, games |-> GamesOrEmpty(p), run |-> k]
    /\ UNCHANGED <<teams, homeLoading, lastTeams, aggVars, newsVars, oddsVars, extraVars>>

\* fetchTodaysGames of operation k: the request rejects, setTodaysGames([])
GamesFailure(k) ==
    /\ k \in 1..Len(homeOps)
    /\ homeOps[k].games = "pending"
    /\ LET op == [homeOps[k] EXCEPT !.games = "failed"]
       IN  /\ homeOps' = [homeOps EXCEPT ![k] = Settle(op)]
           /\ homeRefreshing' = RefreshingAfter(op)
    /\ todaysGames' = << >>
    /\ gamesLoading' = FALSE
    /\ lastGames' = [ok |-> FALSE, games |-> << >>, run |-> k]
    /\ UNCHANGED <<teams, homeLoading, lastTeams, aggVars, newsVars, oddsVars, extraVars>>

\* what the home screen renders: the loading view while loading is true, else
\* the tabs with the team list and the games list; there is no other branch
HomeView == IF homeLoading THEN "loading" ELSE "content"

\* the team tab: teams.map(renderTeam), or "No teams available"
HomeTeamsSection == IF teams # << >> THEN "list" ELSE "empty"

\* the games tab: the spinner, the list, or "No games scheduled for today"
HomeGamesSection ==
    IF gamesLoading THEN "loading"
    ELSE IF todaysGames # << >> THEN "list" ELSE "empty"

\* (isLive || isCompleted) && item.homeTeamScore !== undefined, on a game card
\* of the home screen
HomeShowsScore(status, score) == status \in {"2", "3"} /\ score # Undefined

InitHome ==
    /\ screen = "home"
    /\ zone = ZoneUTC
    /\ clock = 0
    /\ teamId = 0
    /\ Unmounted

NextHome ==
    \/ HomeMount
    \/ HomeOnRefresh
    \/ \E k \in 1..MaxOps : \E p \in TeamsPayloads : TeamsResponse(k, p)
    \/ \E k \in 1..MaxOps : TeamsFailure(k)
    \/ \E k \in 1..MaxOps : \E p \in OddsPayloads : GamesResponse(k, p)
    \/ \E k \in 1..MaxOps : GamesFailure(k)

SpecHome == InitHome /\ [][NextHome]_vars

(***************************************************************************)
(* The odds screen: fetchTodaysGames reads the market-structured odds feed *)
(* through the proxy and transforms every game of it.                      *)
(***************************************************************************)
Digits == <<"0", "1", "2", "3", "4", "5", "6", "7", "8", "9">>

IsDigit(c) == \E i \in 1..Len(Digits) : Digits[i] = c

DigitVal(c) == (CHOOSE i \in 1..Len(Digits) : Digits[i] = c) - 1

NaN == [nan |-> TRUE, val |-> 0]

Num(n) == [nan |-> FALSE, val |-> n]

\* parseFloat on a text without fraction or exponent: an optional sign, then
\* the longest run of digits; NaN when there is no digit
ParseFloat(t) ==
    LET signed == Len(t) > 0 /\ t[1] \in {"-", "+"}
        body == IF signed THEN Tail(t) ELSE t
        lead == {k \in 0..Len(body) : \A j \in 1..k : IsDigit(body[j])}
        n == CHOOSE k \in lead : \A j \in lead : j <= k
        v[k \in 0..n] == IF k = 0 THEN 0 ELSE v[k - 1] * 10 + DigitVal(body[k])
    IN  IF n = 0 THEN NaN
        ELSE Num(IF signed /\ t[1] = "-" THEN 0 - v[n] ELSE v[n])

\* x || '0' on a text that may be undefined: undefined and '' are falsy
OrZeroText(x) == IF x.present /\ x.text # << >> THEN x.text ELSE <<"0">>

\* the 30 entries of NBA_TEAMS
NBA_TEAMS ==
    << [id |-> "1610612737", name |-> "Hawks", city |-> "Atlanta", tricode |-> "ATL"],
       [id |-> "1610612738", name |-> "Celtics", city |-> "Boston", tricode |-> "BOS"],
       [id |-> "1610612751", name |-> "Nets", city |-> "Brooklyn", tricode |-> "BKN"],
       [id |-> "1610612766", name |-> "Hornets", city |-> "Charlotte", tricode |-> "CHA"],
       [id |-> "1610612741", name |-> "Bulls", city |-> "Chicago", tricode |-> "CHI"],
       [id |-> "1610612739", name |-> "Cavaliers", city |-> "Cleveland", tricode |-> "CLE"],
       [id |-> "1610612742", name |-> "Mavericks", city |-> "Dallas", tricode |-> "DAL"],
       [id |-> "1610612743", name |-> "Nuggets", city |-> "Denver", tricode |-> "DEN"],
       [id |-> "1610612765", name |-> "Pistons", city |-> "Detroit", tricode |-> "DET"],
       [id |-> "1610612744", name |-> "Warriors", city |-> "Golden State", tricode |-> "GSW"],
       [id |-> "1610612745", name |-> "Rockets", city |-> "Houston", tricode |-> "HOU"],
       [id |-> "1610612754", name |-> "Pacers", city |-> "Indiana", tricode |-> "IND"],
       [id |-> "1610612746", name |-> "Clippers", city |-> "LA", tricode |-> "LAC"],
       [id |-> "1610612747", name |-> "Lakers", city |-> "Los Angeles", tricode |-> "LAL"],
       [id |-> "1610612763", name |-> "Grizzlies", city |-> "Memphis", tricode |-> "MEM"],
       [id |-> "1610612748", name |-> "Heat", city |-> "Miami", tricode |-> "MIA"],
       [id |-> "1610612749", name |-> "Bucks", city |-> "Milwaukee", tricode |-> "MIL"],
       [id |-> "1610612750", name |-> "Timberwolves", city |-> "Minnesota", tricode |-> "MIN"],
       [id |-> "1610612740", name |-> "Pelicans", city |-> "New Orleans", tricode |-> "NOP"],
       [id |-> "1610612752", name |-> "Knicks", city |-> "New York", tricode |-> "NYK"],
       [id |-> "1610612760", name |-> "Thunder", city |-> "Oklahoma City", tricode |-> "OKC"],
       [id |-> "1610612753", name |-> "Magic", city |-> "Orlando", tricode |-> "ORL"],
       [id |-> "1610612755", name |-> "76ers", city |-> "Philadelphia", tricode |-> "PHI"],
       [id |-> "1610612756", name |-> "Suns", city |-> "Phoenix", tricode |-> "PHX"],
       [id |-> "1610612757", name |-> "Trail Blazers", city |-> "Portland", tricode |-> "POR"],
       [id |-> "1610612758", name |-> "Kings", city |-> "Sacramento", tricode |-> "SAC"],
       [id |-> "1610612759", name |-> "Spurs", city |-> "San Antonio", tricode |-> "SAS"],
       [id |-> "1610612761", name |-> "Raptors", city |-> "Toronto", tricode |-> "TOR"],
       [id |-> "1610612762", name |-> "Jazz", city |-> "Utah", tricode |-> "UTA"],
       [id |-> "1610612764", name |-> "Wizards", city |-> "Washington", tricode |-> "WAS"] >>

TeamKeys == {NBA_TEAMS[k].id : k \in 1..Len(NBA_TEAMS)}

\* NBA_TEAMS is an object literal: a key it does not own is looked up on
\* Object.prototype, whose members are functions (truthy, with a name and no
\* city or tricode)
InheritedKeys == {"constructor", "toString", "valueOf", "hasOwnProperty"}

InheritedName(key) == IF key = "constructor" THEN "Object" ELSE key

UnknownTeam == [name |-> "Unknown", city |-> "Unknown", tricode |-> "UNK"]

\* NBA_TEAMS[id] || { name: 'Unknown', city: 'Unknown', tricode: 'UNK' }
TeamInfoOf(id) ==
    IF id \in TeamKeys
    THEN LET e == NBA_TEAMS[CHOOSE k \in 1..Len(NBA_TEAMS) : NBA_TEAMS[k].id = id]
         IN  [name |-> e.name, city |-> e.city, tricode |-> e.tricode]
    ELSE IF id \in InheritedKeys
    THEN [name |-> InheritedName(id), city |-> Undefined, tricode |-> Undefined]
    ELSE UnknownTeam

\* markets.find(m => m.name === name): the place of the first such market, or 0
FindMarket(markets, name) ==
    LET at == {k \in 1..Len(markets) : markets[k].name = name}
    IN  IF at = {} THEN 0 ELSE CHOOSE k \in at : \A j \in at : k <= j

NoBook == [present |-> FALSE, outcomes |-> << >>]

\* the last book of the market instead of the first
LastBook(markets, name) ==
    LET k == FindMarket(markets, name)
    IN  IF k = 0 \/ markets[k].books = << >> THEN NoBook
        ELSE [present |-> TRUE,
              outcomes |-> markets[k].books[Len(markets[k].books)].outcomes]

\* market?.books[0]
FirstBook(markets, name) ==
    LET k == FindMarket(markets, name)
    IN  IF k = 0 \/ markets[k].books = << >> THEN NoBook
        ELSE [present |-> TRUE, outcomes |-> markets[k].books[1].outcomes]

\* outcomes.find(o => o.type === type): the place of the first such outcome, or 0
FindOutcome(outcomes, type) ==
    LET at == {k \in 1..Len(outcomes) : outcomes[k].type = type}
    IN  IF at = {} THEN 0 ELSE CHOOSE k \in at : \A j \in at : k <= j

\* parseFloat(book.outcomes.find(...)?.odds || '0')
OddsOf(book, type) ==
    LET k == FindOutcome(book.outcomes, type)
    IN  ParseFloat(OrZeroText(IF k = 0 THEN NoText ELSE book.outcomes[k].odds))

\* parseFloat(book.outcomes.find(...)?.spread || '0')
SpreadOf(book, type) ==
    LET k == FindOutcome(book.outcomes, type)
    IN  ParseFloat(OrZeroText(IF k = 0 THEN NoText ELSE book.outcomes[k].spread))

\* moneyLine: moneylineBook ? {...} : undefined
MoneyLineOf(book) ==
    [present |-> book.present,
     homeTeamOdds |-> IF book.present THEN OddsOf(book, "home") ELSE NaN,
     awayTeamOdds |-> IF book.present THEN OddsOf(book, "away") ELSE NaN]

\* pointSpread: spreadBook ? {...} : undefined
PointSpreadOf(book) ==
    [present |-> book.present,
     homeSpread |-> IF book.present THEN SpreadOf(book, "home") ELSE NaN,
     homeOdds |-> IF book.present THEN OddsOf(book, "home") ELSE NaN,
     awaySpread |-> IF book.present THEN SpreadOf(book, "away") ELSE NaN,
     awayOdds |-> IF book.present THEN OddsOf(book, "away") ELSE NaN]

\* overUnder: totalsBook ? {...} : undefined
OverUnderOf(book) ==
    [present |-> book.present,
     total |-> IF book.present THEN SpreadOf(book, "over") ELSE NaN,
     overOdds |-> IF book.present THEN OddsOf(book, "over") ELSE NaN,
     underOdds |-> IF book.present THEN OddsOf(book, "under") ELSE NaN]

\* homeTeam: { teamId, teamName, teamTricode, teamCity }
TeamOf(id) ==
    [teamId |-> id,
     teamName |-> TeamInfoOf(id).name,
     teamTricode |-> TeamInfoOf(id).tricode,
     teamCity |-> TeamInfoOf(id).city]

\* the callback of response.data.games.map, on a game that has a markets array
TransformGame(game) ==
    [gameId |-> game.gameId,
     gameTime |-> "19:30",
     homeTeam |-> TeamOf(game.homeTeamId),
     awayTeam |-> TeamOf(game.awayTeamId),
     gameStatus |-> "1",
     gameStatusText |-> "Upcoming",
     period |-> 0,
     gameClock |-> "",
     homeTeamScore |-> Undefined,
     awayTeamScore |-> Undefined,
     moneyLine |-> MoneyLineOf(FirstBook(game.markets.list, "2way")),
     pointSpread |-> PointSpreadOf(FirstBook(game.markets.list, "spread")),
     overUnder |-> OverUnderOf(FirstBook(game.markets.list, "totals"))]

\* game.markets.find throws a TypeError when the game has no markets array
GameThrows(game) == ~game.markets.present

\* response.data.games.map(...): the transformed games, or the TypeError of
\* the first game that throws or of a response without a games array
TransformGames(data) ==
    IF ~data.present \/ \E k \in 1..Len(data.list) : GameThrows(data.list[k])
    THEN [threw |-> TRUE, games |-> << >>]
    ELSE [threw |-> FALSE, games |-> [k \in 1..Len(data.list) |-> TransformGame(data.list[k])]]

(***************************************************************************)
(* The odds feed as upstream may send it.                                  *)
(***************************************************************************)
Outcome(type, odds, spread) == [type |-> type, odds |-> odds, spread |-> spread]

BookFirst ==
    [id |-> "book-1",
     outcomes |-> << Outcome("home", Text(<<"-", "1", "1", "0">>), NoText),
                     Outcome("away", Text(<<"1", "5", "0">>), NoText) >>]

BookSecond ==
    [id |-> "book-2",
     outcomes |-> << Outcome("home", Text(<<"5">>), NoText),
                     Outcome("away", Text(<<"6">>), NoText) >>]

BookAwayOnly ==
    [id |-> "book-1",
     outcomes |-> << Outcome("away", Text(<<"1", "5", "0">>), NoText) >>]

BookZero ==
    [id |-> "book-1",
     outcomes |-> << Outcome("home", Text(<<"0">>), NoText),
                     Outcome("away", Text(<<"N", "A">>), NoText) >>]

BookSpread ==
    [id |-> "book-1",
     outcomes |-> << Outcome("home", Text(<<"-", "1", "1", "0">>), Text(<<"-", "3">>)),
                     Outcome("away", Text(<<"-", "1", "0", "5">>), Text(<<"+", "3">>)) >>]

BookTotals ==
    [id |-> "book-1",
     outcomes |-> << Outcome("over", Text(<<"-", "1", "1", "0">>), Text(<<"2", "2", "0">>)),
                     Outcome("under", Text(<<>>), NoText) >>]

Market(name, books) == [name |-> name, books |-> books]

Markets(list) == [present |-> TRUE, list |-> list]

NoMarkets == [present |-> FALSE, list |-> << >>]

FeedGame(id, home, away, status, markets) ==
    [gameId |-> id, homeTeamId |-> home, awayTeamId |-> away,
     gameStatus |-> status, markets |-> markets]

\* the games the feed may carry: complete, without markets, without gameId,
\* with a market without book, with a book without home outcome, with odds of
\* 0, with franchise ids outside the table, and with a status of upstream's own
FeedGames ==
    { FeedGame("g1", "1610612737", "1610612738", Undefined,
               Markets(<< Market("2way", <<BookFirst, BookSecond>>),
                          Market("spread", <<BookSpread>>),
                          Market("totals", <<BookTotals>>) >>)),
      FeedGame("g2", "1610612747", "1610612744", Undefined, NoMarkets),
      FeedGame(Undefined, "1610612752", "1610612748", Undefined,
               Markets(<< Market("2way", <<BookFirst>>) >>)),
      FeedGame("g3", "1610612761", "1610612762", Undefined,
               Markets(<< Market("2way", << >>), Market("totals", <<BookTotals>>) >>)),
      FeedGame("g4", "1610612755", "1610612756", Undefined,
               Markets(<< Market("2way", <<BookAwayOnly>>) >>)),
      FeedGame("g5", "1610612757", "1610612758", Undefined,
               Markets(<< Market("2way", <<BookZero>>) >>)),
      FeedGame("g6", "1610612999", "constructor", Undefined, Markets(<< >>)),
      FeedGame("g7", "1610612759", "1610612764", "2",
               Markets(<< Market("2way", <<BookSecond, BookFirst>>) >>)) }

\* response.data: without a games array, or with one of up to MaxGames games
FeedPayloads ==
    {[present |-> FALSE, list |-> << >>]}
        \cup {[present |-> TRUE, list |-> l] :
                 l \in UNION {[1..n -> FeedGames] : n \in 0..MaxGames}}

\* fetchTodaysGames up to its await
FetchOddsCall ==
    /\ oddsRuns < MaxOps
    /\ oddsRuns' = oddsRuns + 1
    /\ oddsPc' = "await"
    /\ UNCHANGED <<oddsGames, oddsLoading, oddsFeed, oddsThrew, aggVars, newsVars, homeVars, extraVars>>

\* useEffect(() => { fetchTodaysGames(); }, [])
OddsMount ==
    /\ screen = "odds"
    /\ oddsPc = "idle"
    /\ FetchOddsCall
    /\ UNCHANGED oddsRefreshing

\* the RefreshControl of the games list
OddsOnRefresh ==
    /\ screen = "odds"
    /\ oddsPc = "done"
    /\ ~oddsLoading
    /\ ~oddsRefreshing
    /\ oddsRefreshing' = TRUE
    /\ FetchOddsCall

\* the request resolves: the games are transformed and stored, or the
\* transformation throws and the catch block stores []
OddsResponse(data) ==
    /\ oddsPc = "await"
    /\ oddsPc' = "done"
    /\ oddsFeed' = data
    /\ oddsThrew' = TransformGames(data).threw
    /\ oddsGames' = TransformGames(data).games
    /\ oddsLoading' = FALSE
    /\ oddsRefreshing' = FALSE
    /\ UNCHANGED <<oddsRuns, aggVars, newsVars, homeVars, extraVars>>

\* the request rejects: the catch block stores []
OddsFailure ==
    /\ oddsPc = "await"
    /\ oddsPc' = "done"
    /\ oddsFeed' = [present |-> FALSE, list |-> << >>]
    /\ oddsThrew' = FALSE
    /\ oddsGames' = << >>
    /\ oddsLoading' = FALSE
    /\ oddsRefreshing' = FALSE
    /\ UNCHANGED <<oddsRuns, aggVars, newsVars, homeVars, extraVars>>

InitOdds ==
    /\ screen = "odds"
    /\ zone = ZoneUTC
    /\ clock = 0
    /\ teamId = 0
    /\ Unmounted

NextOdds ==
    \/ OddsMount
    \/ OddsOnRefresh
    \/ \E data \in FeedPayloads : OddsResponse(data)
    \/ OddsFailure

SpecOdds == InitOdds /\ [][NextOdds]_vars

(***************************************************************************)
(* The game cards: the status colour and the formatting helpers.           *)
(***************************************************************************)
\* Number.prototype.toString of an integer or NaN
NumberToString(x) ==
    LET abs == IF x.val < 0 THEN 0 - x.val ELSE x.val
        d[n \in 0..abs] == IF n < 10 THEN <<Digits[n + 1]>>
                           ELSE d[n \div 10] \o <<Digits[(n % 10) + 1]>>
    IN  IF x.nan THEN <<"N", "a", "N">>
        ELSE IF x.val < 0 THEN <<"-">> \o d[abs] ELSE d[abs]

\* formatOdds written with >= 0
FormatOddsFromZero(odds) ==
    IF ~odds.nan /\ odds.val >= 0
    THEN <<"+">> \o NumberToString(odds)
    ELSE NumberToString(odds)

\* formatOdds of the home screen: odds > 0 ? `+${odds}` : odds.toString()
HomeFormatOdds(odds) ==
    IF ~odds.nan /\ odds.val > 0
    THEN <<"+">> \o NumberToString(odds)
    ELSE NumberToString(odds)

\* formatOdds of the odds screen: odds > 0 ? `+${odds}` : odds.toString()
OddsFormatOdds(odds) ==
    IF ~odds.nan /\ odds.val > 0
    THEN <<"+">> \o NumberToString(odds)
    ELSE NumberToString(odds)

InvalidDateText == <<"I", "n", "v", "a", "l", "i", "d", " ", "D", "a", "t", "e">>

\* new Date(`1970-01-01T${timeString}`): the token is a time when it reads
\* HH:mm with HH up to 23 and mm up to 59; any other token of the model gives
\* an Invalid Date, and the constructor does not throw
ParseTimeToken(t) ==
    IF /\ Len(t) = 5
       /\ IsDigit(t[1]) /\ IsDigit(t[2]) /\ t[3] = ":" /\ IsDigit(t[4]) /\ IsDigit(t[5])
       /\ DigitVal(t[1]) * 10 + DigitVal(t[2]) <= 23
       /\ DigitVal(t[4]) * 10 + DigitVal(t[5]) <= 59
    THEN [valid |-> TRUE,
          hour |-> DigitVal(t[1]) * 10 + DigitVal(t[2]),
          minute |-> DigitVal(t[4]) * 10 + DigitVal(t[5])]
    ELSE [valid |-> FALSE, hour |-> 0, minute |-> 0]

\* toLocaleTimeString('en-US', { hour: 'numeric', minute: '2-digit', hour12: true }):
\* "Invalid Date" for an Invalid Date, without throwing
ToLocaleTimeString(d) ==
    IF ~d.valid THEN InvalidDateText
    ELSE LET h == IF d.hour % 12 = 0 THEN 12 ELSE d.hour % 12
         IN  NumberToString(Num(h)) \o <<":">>
                 \o <<Digits[(d.minute \div 10) + 1], Digits[(d.minute % 10) + 1]>>
                 \o <<" ">> \o (IF d.hour < 12 THEN <<"A", "M">> ELSE <<"P", "M">>)

\* formatTime of the home and of the odds screen; nothing in the try block
\* throws, so the catch block that returns timeString is never entered
FormatTime(timeString) == ToLocaleTimeString(ParseTimeToken(timeString))

\* the colours of a card with those of Live and Final exchanged
CardStatusColorSwapped(status) ==
    IF status = "2" THEN "#00aa00" ELSE IF status = "3" THEN "#ff4444" ELSE "#666"

\* renderGameCard of the home screen: isLive ? '#ff4444' : isCompleted ? '#00aa00' : '#666'
CardStatusColor(status) ==
    IF status = "2" THEN "#ff4444" ELSE IF status = "3" THEN "#00aa00" ELSE "#666"

\* renderGameCard of the odds screen: the same expression
OddsCardStatusColor(status) ==
    IF status = "2" THEN "#ff4444" ELSE IF status = "3" THEN "#00aa00" ELSE "#666"

\* getStatusColor of the schedule screen
GetStatusColor(completed, state) ==
    IF completed THEN "#34C759" ELSE IF state = "in" THEN "#FF3B30" ELSE "#007AFF"

\* the gameStatus values, the odds and the time tokens a card may be given
CardStatuses == {"1", "2", "3", "7", Undefined}

CardOdds == {Num(150), Num(0 - 110), Num(0), Num(7), NaN}

CardTimes ==
    { <<"1", "9", ":", "3", "0">>, <<"0", "0", ":", "0", "5">>, <<"1", "2", ":", "0", "0">>,
      <<"2", "5", ":", "6", "1">>, <<"7", "p", "m">>, <<"T", "B", "D">>, << >> }

CardItem(status, time, odds, completed, state) ==
    [state |-> state, completed |-> completed, status |-> status, gameTime |-> time, odds |-> odds]

ExtraOfCard == <<aggVars, newsVars, homeVars, oddsVars, proxyVars, modalVars, pageVars, tabVars>>

\* renderGameCard of the home screen
RenderHomeCard(item) ==
    /\ cardScreen' = "home"
    /\ cardItem' = item
    /\ cardView' = [odds |-> HomeFormatOdds(item.odds),
                    color |-> CardStatusColor(item.status),
                    time |-> FormatTime(item.gameTime)]
    /\ UNCHANGED ExtraOfCard

\* renderGameCard of the odds screen
RenderOddsCard(item) ==
    /\ cardScreen' = "odds"
    /\ cardItem' = item
    /\ cardView' = [odds |-> OddsFormatOdds(item.odds),
                    color |-> OddsCardStatusColor(item.status),
                    time |-> FormatTime(item.gameTime)]
    /\ UNCHANGED ExtraOfCard

\* renderGame of the schedule screen: the status badge
RenderScheduleCard(item) ==
    /\ cardScreen' = "schedule"
    /\ cardItem' = item
    /\ cardView' = [odds |-> << >>, color |-> GetStatusColor(item.completed, item.state),
                    time |-> << >>]
    /\ UNCHANGED ExtraOfCard

InitCards ==
    /\ screen = "cards"
    /\ zone = ZoneUTC
    /\ clock = 0
    /\ teamId = 0
    /\ Unmounted

NextCards ==
    \/ \E st \in CardStatuses : \E t \in CardTimes : \E o \in CardOdds :
          RenderHomeCard(CardItem(st, t, o, FALSE, ""))
    \/ \E st \in CardStatuses : \E t \in CardTimes : \E o \in CardOdds :
          RenderOddsCard(CardItem(st, t, o, FALSE, ""))
    \/ \E c \in BOOLEAN : \E state \in {"pre", "in", "post", "postponed"} :
          RenderScheduleCard(CardItem(Undefined, << >>, NaN, c, state))

SpecCards == InitCards /\ [][NextCards]_vars

(***************************************************************************)
(* The proxy server: GET /api/nba/games asks the upstream feed and relays  *)
(* its JSON.  A JSON text is a sequence of tokens; the feed is an object   *)
(* with the array "games" of game ids.                                     *)
(***************************************************************************)
JsonSpace == " "

\* the texts the upstream may answer with
UpstreamBodies ==
    { <<"{", "\"games\"", ":", "[", "]", "}">>,
      <<"{", JsonSpace, "\"games\"", ":", JsonSpace, "[", "\"g1\"", "]", JsonSpace, "}">>,
      <<"{", "\"games\"", ":", "[", "\"g1\"", ",", JsonSpace, "\"g2\"", "]", "}">> }

\* the ways the upstream request fails: no answer, or a status outside 2xx
UpstreamFailures == {"network", "status"}

\* JSON.parse, as axios applies it to the upstream text: response.data
JsonParse(text) ==
    LET t == SelectSeq(text, LAMBDA c : c # JsonSpace)
        inner == SubSeq(t, 5, Len(t) - 2)
    IN  [games |-> SelectSeq(inner, LAMBDA c : c # ",")]

\* JSON.stringify, as res.json applies it
JsonStringify(data) ==
    LET Items[k \in 0 .. Len(data.games)] ==
            IF k = 0 THEN << >>
            ELSE IF k = 1 THEN <<data.games[1]>>
            ELSE Items[k - 1] \o <<",", data.games[k]>>
    IN  <<"{", "\"games\"", ":", "[">> \o Items[Len(data.games)] \o <<"]", "}">>

\* JSON.stringify({ error: 'Failed to fetch NBA data' })
ErrorBody == <<"{", "\"error\"", ":", "\"Failed to fetch NBA data\"", "}">>

ExtraOfProxy == <<aggVars, newsVars, homeVars, oddsVars, cardVars, modalVars, pageVars, tabVars>>

\* an incoming GET /api/nba/games: the handler runs to its await
ProxyGet(r) ==
    /\ proxyRunning
    /\ proxyPhase[r] = "none"
    /\ proxyPhase' = [proxyPhase EXCEPT ![r] = "await"]
    /\ proxyCalls' = [proxyCalls EXCEPT ![r] = @ + 1]
    /\ UNCHANGED <<proxyRunning, proxyData, proxySent, ExtraOfProxy>>

\* the upstream answers: res.json(response.data)
ProxyUpstreamResponse(r, text) ==
    /\ proxyRunning
    /\ proxyPhase[r] = "await"
    /\ proxyPhase' = [proxyPhase EXCEPT ![r] = "done"]
    /\ proxyData' = [proxyData EXCEPT ![r] = [ok |-> TRUE, text |-> text]]
    /\ proxySent' = [proxySent EXCEPT
                        ![r] = Append(@, [status |-> 200, body |-> JsonStringify(JsonParse(text))])]
    /\ UNCHANGED <<proxyRunning, proxyCalls, ExtraOfProxy>>

\* a handler without the catch block: the rejection is unhandled, the process
\* ends and the request is never answered
ProxyUpstreamFailureUncaught(r, kind) ==
    /\ proxyRunning
    /\ proxyPhase[r] = "await"
    /\ proxyPhase' = [proxyPhase EXCEPT ![r] = "done"]
    /\ proxyData' = [proxyData EXCEPT ![r] = [ok |-> FALSE, text |-> <<kind>>]]
    /\ proxyRunning' = FALSE
    /\ UNCHANGED <<proxyCalls, proxySent, ExtraOfProxy>>

\* the upstream request fails: res.status(500).json({ error: ... })
ProxyUpstreamFailure(r, kind) ==
    /\ proxyRunning
    /\ proxyPhase[r] = "await"
    /\ proxyPhase' = [proxyPhase EXCEPT ![r] = "done"]
    /\ proxyData' = [proxyData EXCEPT ![r] = [ok |-> FALSE, text |-> <<kind>>]]
    /\ proxySent' = [proxySent EXCEPT ![r] = Append(@, [status |-> 500, body |-> ErrorBody])]
    /\ UNCHANGED <<proxyRunning, proxyCalls, ExtraOfProxy>>

InitProxy ==
    /\ screen = "proxy"
    /\ zone = ZoneUTC
    /\ clock = 0
    /\ teamId = 0
    /\ Unmounted

NextProxy ==
    \/ \E r \in ProxyRequests : ProxyGet(r)
    \/ \E r \in ProxyRequests : \E text \in UpstreamBodies : ProxyUpstreamResponse(r, text)
    \/ \E r \in ProxyRequests : \E kind \in UpstreamFailures : ProxyUpstreamFailure(r, kind)

SpecProxy == InitProxy /\ [][NextProxy]_vars

(***************************************************************************)
(* The game-detail modal of the schedule screen.  A press on a game of the *)
(* list opens the modal and asks for the game's summary; the modal covers  *)
(* the list until it is closed, and closing it cancels nothing.            *)
(***************************************************************************)
DetailErrorText ==
    "Failed to load game details. This game might not have detailed data available yet or an error occurred."

\* response.data of summary?event=<id>: the summary of that event
SummaryOf(id) == [present |-> TRUE, event |-> id]

ExtraOfModal == <<aggVars, newsVars, homeVars, oddsVars, cardVars, proxyVars, pageVars, tabVars>>

\* handleGamePress, up to its await
HandleGamePress(game) ==
    /\ ~isDetailModalVisible
    /\ Len(detailCalls) < MaxPresses
    /\ selectedGameForDetail' = game
    /\ isDetailModalVisible' = TRUE
    /\ detailedGameData' = NoSummary
    /\ detailError' = NoError
    /\ isLoadingGameDetails' = TRUE
    /\ detailCalls' = Append(detailCalls, [game |-> game, done |-> FALSE])
    /\ UNCHANGED ExtraOfModal

\* the Close button and onRequestClose of the modal
CloseDetailModal ==
    /\ isDetailModalVisible
    /\ isDetailModalVisible' = FALSE
    /\ UNCHANGED <<selectedGameForDetail, detailedGameData, isLoadingGameDetails,
                   detailError, detailCalls, ExtraOfModal>>

\* handleGamePress after its await: the summary has arrived
SummaryResponse(k) ==
    /\ k \in 1 .. Len(detailCalls)
    /\ ~detailCalls[k].done
    /\ detailedGameData' = SummaryOf(detailCalls[k].game)
    /\ isLoadingGameDetails' = FALSE
    /\ detailCalls' = [detailCalls EXCEPT ![k].done = TRUE]
    /\ UNCHANGED <<selectedGameForDetail, isDetailModalVisible, detailError, ExtraOfModal>>

\* handleGamePress after its await: the request has failed
SummaryFailure(k) ==
    /\ k \in 1 .. Len(detailCalls)
    /\ ~detailCalls[k].done
    /\ detailError' = DetailErrorText
    /\ isLoadingGameDetails' = FALSE
    /\ detailCalls' = [detailCalls EXCEPT ![k].done = TRUE]
    /\ UNCHANGED <<selectedGameForDetail, isDetailModalVisible, detailedGameData, ExtraOfModal>>

InitModal ==
    /\ screen = "modal"
    /\ zone = ZoneUTC
    /\ clock = 0
    /\ teamId = 0
    /\ Unmounted

NextModal ==
    \/ \E game \in GameIds : HandleGamePress(game)
    \/ CloseDetailModal
    \/ \E k \in 1 .. MaxPresses : SummaryResponse(k)
    \/ \E k \in 1 .. MaxPresses : SummaryFailure(k)

SpecModal == InitModal /\ [][NextModal]_vars

(***************************************************************************)
(* The team-detail screen as a whole: its effect and its refresh start     *)
(* fetchTeamDetails, fetchTeamGames, fetchTeamRoster and fetchTeamInfo     *)
(* together.  The contents of the games lists are followed in Spec; here   *)
(* fetchTeamGames is followed by the number of its date requests that have *)
(* completed, the last of which is followed by its finally block.          *)
(***************************************************************************)
\* the dates fetchTeamGames requests one after the other
TeamDateCount == TEAM_D_PAST + TEAM_D_FUTURE

\* response.data.team of teams/<id>
TeamOfRoute(id) == [present |-> TRUE, id |-> id]

\* response.data.athletes of teams/<id>/roster
RosterPayloads == { <<1>>, <<1, 2>> }

NewPageOp == [details |-> "pending", roster |-> "pending", info |-> "pending", at |-> 0]

\* if (loading) ... ; if (!team) ... "Team not found"
TeamNotFoundShown == ~pageLoading /\ ~team.present

\* the full page, which holds the RefreshControl
TeamPageShown == ~pageLoading /\ team.present

ExtraOfPage == <<aggVars, newsVars, homeVars, oddsVars, cardVars, proxyVars, modalVars, tabVars>>

\* useEffect(() => { if (id) Promise.all([...]) }, [id])
PageMount ==
    /\ pageOps = << >>
    /\ teamId # 0
    /\ pageOps' = <<NewPageOp>>
    /\ UNCHANGED <<team, roster, teamInfo, pageLoading, pageRefreshing, ExtraOfPage>>

\* onRefresh: setRefreshing(true) and the four fetches again
PageOnRefresh ==
    /\ TeamPageShown
    /\ ~pageRefreshing
    /\ Len(pageOps) < MaxPageOps
    /\ pageRefreshing' = TRUE
    /\ pageOps' = Append(pageOps, NewPageOp)
    /\ UNCHANGED <<team, roster, teamInfo, pageLoading, ExtraOfPage>>

\* fetchTeamDetails after its await: setTeam(response.data.team)
TeamDetailsResponse(k) ==
    /\ k \in 1 .. Len(pageOps)
    /\ pageOps[k].details = "pending"
    /\ team' = TeamOfRoute(teamId)
    /\ pageOps' = [pageOps EXCEPT ![k].details = "ok"]
    /\ UNCHANGED <<roster, teamInfo, pageLoading, pageRefreshing, ExtraOfPage>>

\* fetchTeamDetails after its await: the catch block only logs
TeamDetailsFailure(k) ==
    /\ k \in 1 .. Len(pageOps)
    /\ pageOps[k].details = "pending"
    /\ pageOps' = [pageOps EXCEPT ![k].details = "failed"]
    /\ UNCHANGED <<team, roster, teamInfo, pageLoading, pageRefreshing, ExtraOfPage>>

\* fetchTeamRoster after its await: setRoster(response.data.athletes)
TeamRosterResponse(k, athletes) ==
    /\ k \in 1 .. Len(pageOps)
    /\ pageOps[k].roster = "pending"
    /\ roster' = athletes
    /\ pageOps' = [pageOps EXCEPT ![k].roster = "ok"]
    /\ UNCHANGED <<team, teamInfo, pageLoading, pageRefreshing, ExtraOfPage>>

\* fetchTeamRoster after its await: the catch block only logs
TeamRosterFailure(k) ==
    /\ k \in 1 .. Len(pageOps)
    /\ pageOps[k].roster = "pending"
    /\ pageOps' = [pageOps EXCEPT ![k].roster = "failed"]
    /\ UNCHANGED <<team, roster, teamInfo, pageLoading, pageRefreshing, ExtraOfPage>>

\* fetchTeamInfo after its await: setTeamInfo(response.data.team)
TeamInfoResponse(k) ==
    /\ k \in 1 .. Len(pageOps)
    /\ pageOps[k].info = "pending"
    /\ teamInfo' = TeamOfRoute(teamId)
    /\ pageOps' = [pageOps EXCEPT ![k].info = "ok"]
    /\ UNCHANGED <<team, roster, pageLoading, pageRefreshing, ExtraOfPage>>

\* fetchTeamInfo after its await: the catch block only logs
TeamInfoFailure(k) ==
    /\ k \in 1 .. Len(pageOps)
    /\ pageOps[k].info = "pending"
    /\ pageOps' = [pageOps EXCEPT ![k].info = "failed"]
    /\ UNCHANGED <<team, roster, teamInfo, pageLoading, pageRefreshing, ExtraOfPage>>

\* fetchTeamGames after one of its awaits, whether the date request succeeded
\* or failed: the next date is requested, and after the last date the lists
\* are set and the finally block clears both flags
TeamGamesDateSettled(k) ==
    /\ k \in 1 .. Len(pageOps)
    /\ pageOps[k].at < TeamDateCount
    /\ pageOps' = [pageOps EXCEPT ![k].at = @ + 1]
    /\ IF pageOps[k].at + 1 = TeamDateCount
       THEN pageLoading' = FALSE /\ pageRefreshing' = FALSE
       ELSE UNCHANGED <<pageLoading, pageRefreshing>>
    /\ UNCHANGED <<team, roster, teamInfo, ExtraOfPage>>

InitPage ==
    /\ screen = "teampage"
    /\ zone = ZoneUTC
    /\ clock = 0
    /\ teamId \in RouteTeamIds
    /\ Unmounted

NextPage ==
    \/ PageMount
    \/ PageOnRefresh
    \/ \E k \in 1 .. MaxPageOps : TeamDetailsResponse(k)
    \/ \E k \in 1 .. MaxPageOps : TeamDetailsFailure(k)
    \/ \E k \in 1 .. MaxPageOps : \E athletes \in RosterPayloads : TeamRosterResponse(k, athletes)
    \/ \E k \in 1 .. MaxPageOps : TeamRosterFailure(k)
    \/ \E k \in 1 .. MaxPageOps : TeamInfoResponse(k)
    \/ \E k \in 1 .. MaxPageOps : TeamInfoFailure(k)
    \/ \E k \in 1 .. MaxPageOps : TeamGamesDateSettled(k)

SpecPage == InitPage /\ [][NextPage]_vars

(***************************************************************************)
(* The teams tab: fetchTeams has one await; the pull-to-refresh calls it   *)
(* through onRefresh.                                                      *)
(***************************************************************************)
\* response.data of the teams resource: without sports, with a league whose
\* teams are absent, or with a league and its teams
TabPayloads ==
    { [sports |-> FALSE, teams |-> FALSE, list |-> << >>],
      [sports |-> TRUE, teams |-> FALSE, list |-> << >>],
      [sports |-> TRUE, teams |-> TRUE, list |-> <<1>>],
      [sports |-> TRUE, teams |-> TRUE, list |-> <<1, 2>>] }

ExtraOfTab == <<aggVars, newsVars, homeVars, oddsVars, cardVars, proxyVars, modalVars, pageVars>>

\* useEffect(() => { fetchTeams() }, [])
TabMount ==
    /\ tabCalls = << >>
    /\ tabCalls' = <<"pending">>
    /\ UNCHANGED <<tabTeams, tabLoading, tabRefreshing, ExtraOfTab>>

\* onRefresh of the list's RefreshControl
TabOnRefresh ==
    /\ ~tabLoading
    /\ ~tabRefreshing
    /\ Len(tabCalls) < MaxOps
    /\ tabRefreshing' = TRUE
    /\ tabCalls' = Append(tabCalls, "pending")
    /\ UNCHANGED <<tabTeams, tabLoading, ExtraOfTab>>

\* fetchTeams after its await: setTeams(response.data.sports[0].leagues[0].teams || []);
\* reading sports[0] of a response without sports throws into the catch block
TabTeamsResponse(k, p) ==
    /\ k \in 1 .. Len(tabCalls)
    /\ tabCalls[k] = "pending"
    /\ tabTeams' = (IF ~p.sports THEN tabTeams ELSE IF p.teams THEN p.list ELSE << >>)
    /\ tabCalls' = [tabCalls EXCEPT ![k] = IF p.sports THEN "ok" ELSE "failed"]
    /\ tabLoading' = FALSE
    /\ tabRefreshing' = FALSE
    /\ UNCHANGED ExtraOfTab

\* fetchTeams without its finally block
TabTeamsFailureNoFinally(k) ==
    /\ k \in 1 .. Len(tabCalls)
    /\ tabCalls[k] = "pending"
    /\ tabCalls' = [tabCalls EXCEPT ![k] = "failed"]
    /\ UNCHANGED <<tabTeams, tabLoading, tabRefreshing, ExtraOfTab>>

\* fetchTeams after its await: the request has failed
TabTeamsFailure(k) ==
    /\ k \in 1 .. Len(tabCalls)
    /\ tabCalls[k] = "pending"
    /\ tabCalls' = [tabCalls EXCEPT ![k] = "failed"]
    /\ tabLoading' = FALSE
    /\ tabRefreshing' = FALSE
    /\ UNCHANGED <<tabTeams, ExtraOfTab>>

InitTab ==
    /\ screen = "teams"
    /\ zone = ZoneUTC
    /\ clock = 0
    /\ teamId = 0
    /\ Unmounted

NextTab ==
    \/ TabMount
    \/ TabOnRefresh
    \/ \E k \in 1 .. MaxOps : \E p \in TabPayloads : TabTeamsResponse(k, p)
    \/ \E k \in 1 .. MaxOps : TabTeamsFailure(k)

SpecTab == InitTab /\ [][NextTab]_vars

(***************************************************************************)
(* The app with one of its screens open.  A mount effect runs once the     *)
(* screen is rendered and an issued request completes, by success or by    *)
(* failure: these steps are taken whenever they stay possible, while the   *)
(* presses and pulls of the user are not.                                  *)
(***************************************************************************)
InitApp == Init \/ InitNews \/ InitHome \/ InitOdds \/ InitPage \/ InitTab

\* the steps of the user: pull-to-refresh, Retry, "Refresh Now"
ScreenUser ==
    \/ ScheduleOnRefresh
    \/ ScheduleRetryPress
    \/ NewsOnRefresh
    \/ NewsRetryPress
    \/ NewsRefreshNowPress
    \/ (screen = "home" /\ HomeOnRefresh)
    \/ (screen = "odds" /\ OddsOnRefresh)
    \/ (screen = "teampage" /\ PageOnRefresh)
    \/ (screen = "teams" /\ TabOnRefresh)

\* the mount effects and the completions of the requests
ScreenProgress ==
    \/ ScheduleMount
    \/ (screen \in {"schedule", "team"} /\
            \/ \E ev \in EventSeqs(today, MaxTotal - used) : DateResponse(TRUE, ev)
            \/ DateResponse(FALSE, << >>)
            \/ DateError)
    \/ NewsMount
    \/ (screen = "news" /\
            \/ \E r \in 1..MaxOps : \E p \in NewsPayloads : NewsResponse(r, p)
            \/ \E r \in 1..MaxOps : NewsFailure(r))
    \/ (screen = "home" /\
            \/ HomeMount
            \/ \E k \in 1..MaxOps : \E p \in TeamsPayloads : TeamsResponse(k, p)
            \/ \E k \in 1..MaxOps : TeamsFailure(k)
            \/ \E k \in 1..MaxOps : \E p \in OddsPayloads : GamesResponse(k, p)
            \/ \E k \in 1..MaxOps : GamesFailure(k))
    \/ (screen = "odds" /\
            \/ OddsMount
            \/ \E data \in FeedPayloads : OddsResponse(data)
            \/ OddsFailure)
    \/ (screen = "teampage" /\
            \/ PageMount
            \/ \E k \in 1 .. MaxPageOps : TeamDetailsResponse(k)
            \/ \E k \in 1 .. MaxPageOps : TeamDetailsFailure(k)
            \/ \E k \in 1 .. MaxPageOps : \E athletes \in RosterPayloads :
                  TeamRosterResponse(k, athletes)
            \/ \E k \in 1 .. MaxPageOps : TeamRosterFailure(k)
            \/ \E k \in 1 .. MaxPageOps : TeamInfoResponse(k)
            \/ \E k \in 1 .. MaxPageOps : TeamInfoFailure(k)
            \/ \E k \in 1 .. MaxPageOps : TeamGamesDateSettled(k))
    \/ (screen = "teams" /\
            \/ TabMount
            \/ \E k \in 1 .. MaxOps : \E p \in TabPayloads : TabTeamsResponse(k, p)
            \/ \E k \in 1 .. MaxOps : TabTeamsFailure(k))

\* with the fetchTeamGames of the team-detail screen followed game by game
NextApp == ScreenUser \/ ScreenProgress \/ TeamMount \/ TeamOnRefresh

SpecApp == InitApp /\ [][NextApp]_vars

\* the screens with their flags, the team-detail screen taken as a whole and
\* the schedule screen in the zone UTC (the zone plays no part in the flags);
\* the mount effects and the completions are taken whenever they stay possible
InitScreens ==
    \/ (Init /\ screen = "schedule" /\ zone = ZoneUTC)
    \/ InitNews \/ InitHome \/ InitOdds \/ InitPage \/ InitTab

NextScreens == ScreenUser \/ ScreenProgress

SpecScreens == InitScreens /\ [][NextScreens]_vars /\ WF_vars(ScreenProgress)

(***************************************************************************)
(* Properties of the date-window aggregation.                              *)
(***************************************************************************)
Games(days) == UNION {{days[k].games[j] : j \in 1..Len(days[k].games)} : k \in 1..Len(days)}

Count(s, g) == Cardinality({k \in 1..Len(s) : s[k] = g})

CountInDays(days, g) ==
    LET n[k \in 0..Len(days)] == IF k = 0 THEN 0 ELSE n[k - 1] + Count(days[k].games, g)
    IN  n[Len(days)]

\* the run has ended and its result was stored (no null entry made it throw)
RunStored == pc = "done" /\ ~HasNull(allGames)

\* C1: one run issues exactly one request per entry of its dates array and never
\* repeats one: 7 requests on the schedule screen, 20 on the team-detail
\* screen, whichever of them fail.
C1_RequestCount ==
    /\ Len(requestLog) = idx
    /\ pc = "done" =>
          /\ requestLog = dates
          /\ screen = "schedule" => Len(requestLog) = 7
          /\ screen = "team" => Len(requestLog) = 20

\* a team-detail run that ended after failures and successes
C1_Witness ==
    /\ screen = "team"
    /\ pc = "done"
    /\ someFailed
    /\ allGames # << >>
    /\ Len(requestLog) = 20

\* C2: a failing date request counts as no games for its date: the run still
\* requests every date, the games of the successful requests reach the stored
\* result, and the screen's error flag stays clear.
C2_FailureIsolated ==
    /\ error # NoError => (pc = "done" /\ HasNull(allGames))
    /\ pc = "done" => requestLog = dates
    /\ (RunStored /\ screen = "schedule") =>
          \A k \in 1..Len(allGames) :
              CountInDays(schedule, allGames[k]) = Count(allGames, allGames[k])
    /\ (RunStored /\ screen = "team") =>
          \A k \in 1..Len(allGames) :
              (allGames[k].home = teamId \/ allGames[k].away = teamId) =>
                  Count(upcomingGames, allGames[k]) + Count(pastGames, allGames[k])
                      = Count(allGames, allGames[k])

\* a schedule run with a failed request whose other games were stored
C2_Witness ==
    /\ screen = "schedule"
    /\ RunStored
    /\ someFailed
    /\ Len(allGames) >= 2
    /\ schedule # << >>
    /\ error = NoError

\* C3: at most one date request of a run is in flight; the k-th request is the
\* one of the k-th date and is issued once the one before it has completed; the
\* dates are requested in ascending order.
C3_Sequential ==
    /\ inflight <= 1
    /\ pc = "await" => inflight = 1
    /\ requestLog = SubSeq(dates, 1, idx)
    /\ \A k \in 1..(Len(requestLog) - 1) : requestLog[k] <= requestLog[k + 1]

\* a later request awaited after an earlier one has failed
C3_Witness ==
    /\ pc = "await"
    /\ idx > 1
    /\ someFailed
    /\ inflight = 1

\* C4: the stored result of a run holds every gameId at most once.
C4_UniqueGameId ==
    /\ (RunStored /\ screen = "schedule") =>
          \A g \in Games(schedule) : \A h \in Games(schedule) :
              g.id = h.id => (g = h /\ CountInDays(schedule, g) = 1)
    /\ (RunStored /\ screen = "team") =>
          \A k \in 1..Len(upcomingGames) : \A j \in 1..Len(upcomingGames) :
              upcomingGames[k].id = upcomingGames[j].id => k = j

\* C5: the days of the schedule are in strictly ascending date order and the
\* games of each day in ascending order of their time.
C5_Ordered ==
    /\ \A k \in 1..(Len(schedule) - 1) : schedule[k].date < schedule[k + 1].date
    /\ \A k \in 1..Len(schedule) :
          \A j \in 1..(Len(schedule[k].games) - 1) :
              schedule[k].games[j].date <= schedule[k].games[j + 1].date

\* three games delivered latest first, stored as two days
C5_Witness ==
    /\ screen = "schedule"
    /\ RunStored
    /\ error = NoError
    /\ Len(allGames) = 3
    /\ allGames[1].date > allGames[2].date
    /\ allGames[2].date > allGames[3].date
    /\ Len(schedule) = 2
    /\ Len(schedule[2].games) = 2

\* C6: every game is in the group of the local calendar day of its own date
\* field, and no two groups are of the same day.
C6_GroupedByOwnDate ==
    /\ \A k \in 1..Len(schedule) :
          \A j \in 1..Len(schedule[k].games) :
              LocalDay(zone, schedule[k].games[j].date) = schedule[k].date
    /\ \A k \in 1..Len(schedule) : \A j \in 1..Len(schedule) :
          schedule[k].date = schedule[j].date => k = j

\* a game returned by the request of another day, stored under its own day
C6_Witness ==
    /\ screen = "schedule"
    /\ RunStored
    /\ error = NoError
    /\ skewed
    /\ Len(schedule) >= 2

\* C7: the team variant keeps exactly the games of the team, upcoming holding
\* those strictly after now in ascending order, past those at or before now in
\* descending order, no game in both.
C7_TeamSplit ==
    (RunStored /\ screen = "team") =>
        /\ \A k \in 1..Len(upcomingGames) :
              /\ upcomingGames[k].home = teamId \/ upcomingGames[k].away = teamId
              /\ upcomingGames[k].date > nowRead
        /\ \A k \in 1..Len(pastGames) :
              /\ pastGames[k].home = teamId \/ pastGames[k].away = teamId
              /\ pastGames[k].date <= nowRead
        /\ \A k \in 1..(Len(upcomingGames) - 1) :
              upcomingGames[k].date <= upcomingGames[k + 1].date
        /\ \A k \in 1..(Len(pastGames) - 1) :
              pastGames[k].date >= pastGames[k + 1].date
        /\ \A k \in 1..Len(upcomingGames) : \A j \in 1..Len(pastGames) :
              upcomingGames[k] # pastGames[j]
        /\ \A k \in 1..Len(allGames) :
              Count(upcomingGames, allGames[k]) + Count(pastGames, allGames[k])
                  = (IF allGames[k].home = teamId \/ allGames[k].away = teamId
                     THEN Count(allGames, allGames[k]) ELSE 0)

\* a game of another team dropped, one game at the instant of now in past
C7_Witness ==
    /\ screen = "team"
    /\ RunStored
    /\ Len(allGames) = 3
    /\ Len(upcomingGames) = 1
    /\ Len(pastGames) = 1
    /\ pastGames[1].date = nowRead

\* C8: the dates of a run are the contiguous calendar days from today - daysBefore
\* to today + daysAfter - 1, each once, today being one calendar day (the
\* device's or the UTC one).
C8_ContiguousDates ==
    pc # "idle" =>
        LET dPast == IF screen = "schedule" THEN SCHEDULE_D_PAST ELSE TEAM_D_PAST
            dFuture == IF screen = "schedule" THEN SCHEDULE_D_FUTURE ELSE TEAM_D_FUTURE
        IN  /\ Len(dates) = dPast + dFuture
            /\ \E base \in {LocalDay(zone, today), today \div HoursPerDay} :
                  \A k \in 1..Len(dates) :
                      dates[k] = IsoDateToken((base - dPast + k - 1) * HoursPerDay)

(***************************************************************************)
(* Properties of the news screen and of the home screen.                   *)
(***************************************************************************)
\* the completed calls of fetchNews that resolved
OkEntries == {k \in 1..Len(newsLog) : newsLog[k].ok}

LastOk == CHOOSE k \in OkEntries : \A j \in OkEntries : j <= k

\* C9: the article list is the result of the call whose response arrived last,
\* also when a call started later had already stored its result: a stale
\* response overwrites the fresher one.
C9_LastArrivalWins ==
    OkEntries # {} => articles = ArticlesOrEmpty(newsLog[LastOk].payload)

\* the second call started while the first was in flight, the first one's
\* response arrived last and its articles are the ones displayed
C9_Witness ==
    /\ Len(newsLog) >= 3
    /\ \E k \in 2..(Len(newsLog) - 1) :
          /\ newsLog[k].ok /\ newsLog[k + 1].ok
          /\ newsLog[k].run > newsLog[k + 1].run
          /\ newsLog[k].payload.list # newsLog[k + 1].payload.list
          /\ k + 1 = Len(newsLog)
          /\ articles = newsLog[k + 1].payload.list
          /\ articles # newsLog[k].payload.list
    /\ newsPending = {}

\* C10: on the home screen each of the two requests stores its own outcome
\* whatever the other does, and a refresh ends (refreshing becomes false)
\* exactly when both of its requests have finished.
C10_IsolatedAndJoined ==
    /\ \A k \in 1..Len(homeOps) :
          homeOps[k].kind = "refresh" =>
              (homeOps[k].settled <=>
                  (homeOps[k].teams # "pending" /\ homeOps[k].games # "pending"))
    /\ homeRefreshing <=>
          \E k \in 1..Len(homeOps) : homeOps[k].kind = "refresh" /\ ~homeOps[k].settled
    /\ todaysGames = lastGames.games
    /\ teams = lastTeams

\* a refresh whose team request failed first: still refreshing until the games
\* request stored its list
C10_Witness ==
    /\ Len(homeOps) >= 2
    /\ homeOps[2].kind = "refresh"
    /\ homeOps[2].teams = "failed"
    /\ homeOps[2].games = "ok"
    /\ homeOps[2].settled
    /\ ~homeRefreshing
    /\ lastGames.run = 2
    /\ todaysGames = <<2, 1>>
    /\ teams = <<TeamC, TeamB, TeamA>>

TeamsReturned == {k \in 1..Len(homeOps) : homeOps[k].teams # "pending"}

TeamsFailed == {k \in 1..Len(homeOps) : homeOps[k].teams = "failed"}

\* C12: when the primary resource of the home screen (the team list) has failed
\* to load, the screen is in an error state offering a retry; when only the
\* today's-games request failed, the games section is empty and no error state
\* is shown.
C12_ErrorStatePolicy ==
    /\ (TeamsReturned # {} /\ TeamsReturned = TeamsFailed) => HomeView = "error"
    /\ (TeamsReturned # TeamsFailed /\ ~gamesLoading /\ ~lastGames.ok) =>
          (HomeView = "content" /\ HomeGamesSection = "empty")

\* the calls of fetchTodaysGames that have returned
GamesReturned == {k \in 1..Len(homeOps) : homeOps[k].games # "pending"}

\* C13: on the home screen a section whose request has completed is displayed,
\* whatever the other request does: the games section once a today's-games
\* request has returned, the team section once a team-list request has
\* returned; a request still pending keeps only its own indicator on.
C13_HangingRequestIsolated ==
    /\ GamesReturned # {} => (HomeView = "content" /\ HomeGamesSection # "loading")
    /\ TeamsReturned # {} => HomeView = "content"

(***************************************************************************)
(* Properties of the transformation of the odds feed.                      *)
(***************************************************************************)
\* a response with a games array has been received and handled
FeedHandled == oddsPc = "done" /\ oddsFeed.present

\* C14: a game that lacks an optional field (its markets list) does not abort the
\* transformation of the response: every game of the response, that one
\* included, has its record, and the record of that game has no odds.
C14_OptionalFieldTolerated ==
    FeedHandled =>
        /\ ~oddsThrew
        /\ Len(oddsGames) = Len(oddsFeed.list)
        /\ \A k \in 1..Len(oddsGames) :
              /\ oddsGames[k].gameId = oddsFeed.list[k].gameId
              /\ ~oddsFeed.list[k].markets.present =>
                    /\ ~oddsGames[k].moneyLine.present
                    /\ ~oddsGames[k].pointSpread.present
                    /\ ~oddsGames[k].overUnder.present

\* the games of the response that carry a gameId
WithId(list) == {k \in 1..Len(list) : list[k].gameId # Undefined}

\* C15: the games of the response that lack their gameId are dropped and all the
\* others kept: no stored record is without gameId, and the stored records are
\* as many as the games that carry one.
C15_MissingIdDropped ==
    (FeedHandled /\ ~oddsThrew) =>
        /\ \A k \in 1..Len(oddsGames) : oddsGames[k].gameId # Undefined
        /\ Len(oddsGames) = Cardinality(WithId(oddsFeed.list))

\* every game of the response has a markets array
MarketsPresent == \A k \in 1..Len(oddsFeed.list) : oddsFeed.list[k].markets.present

\* the market of that name is missing from the game or has no book
NoLine(game, name) ==
    \/ FindMarket(game.markets.list, name) = 0
    \/ game.markets.list[FindMarket(game.markets.list, name)].books = << >>

\* books[0] of the first market of that name
Book1(game, name) == game.markets.list[FindMarket(game.markets.list, name)].books[1]

CarriesZero(book, type, field) ==
    LET k == FindOutcome(book.outcomes, type)
    IN  /\ k # 0
        /\ IF field = "odds"
           THEN book.outcomes[k].odds.present /\ ParseFloat(book.outcomes[k].odds.text) = Num(0)
           ELSE book.outcomes[k].spread.present /\ ParseFloat(book.outcomes[k].spread.text) = Num(0)

\* C17: a number of a stored line is 0 only when the outcome of the matching type
\* of the selected book carried the value 0.
C17_ZeroOnlyIfCarried ==
    (FeedHandled /\ ~oddsThrew) =>
        \A k \in 1..Len(oddsGames) :
            LET g == oddsFeed.list[k]
                r == oddsGames[k]
            IN  /\ r.moneyLine.present =>
                      /\ r.moneyLine.homeTeamOdds = Num(0) => CarriesZero(Book1(g, "2way"), "home", "odds")
                      /\ r.moneyLine.awayTeamOdds = Num(0) => CarriesZero(Book1(g, "2way"), "away", "odds")
                /\ r.pointSpread.present =>
                      /\ r.pointSpread.homeSpread = Num(0) => CarriesZero(Book1(g, "spread"), "home", "spread")
                      /\ r.pointSpread.homeOdds = Num(0) => CarriesZero(Book1(g, "spread"), "home", "odds")
                      /\ r.pointSpread.awaySpread = Num(0) => CarriesZero(Book1(g, "spread"), "away", "spread")
                      /\ r.pointSpread.awayOdds = Num(0) => CarriesZero(Book1(g, "spread"), "away", "odds")
                /\ r.overUnder.present =>
                      /\ r.overUnder.total = Num(0) => CarriesZero(Book1(g, "totals"), "over", "spread")
                      /\ r.overUnder.overOdds = Num(0) => CarriesZero(Book1(g, "totals"), "over", "odds")
                      /\ r.overUnder.underOdds = Num(0) => CarriesZero(Book1(g, "totals"), "under", "odds")

\* the team of a stored record is the table's entry of its id, or the sentinel
CanonicalTeam(stored) ==
    IF stored.teamId \in TeamKeys
    THEN \E k \in 1..Len(NBA_TEAMS) :
            /\ NBA_TEAMS[k].id = stored.teamId
            /\ stored.teamName = NBA_TEAMS[k].name
            /\ stored.teamCity = NBA_TEAMS[k].city
            /\ stored.teamTricode = NBA_TEAMS[k].tricode
    ELSE stored.teamName = "Unknown" /\ stored.teamTricode = "UNK"

\* C18: a franchise id that is a key of the team table gives that entry's name,
\* city and tricode; any other id gives the name "Unknown" and the tricode
\* "UNK", and the record and the response are kept.
C18_UnknownTeamSentinel ==
    (FeedHandled /\ MarketsPresent) =>
        /\ ~oddsThrew
        /\ Len(oddsGames) = Len(oddsFeed.list)
        /\ \A k \in 1..Len(oddsGames) :
              /\ oddsGames[k].homeTeam.teamId = oddsFeed.list[k].homeTeamId
              /\ oddsGames[k].awayTeam.teamId = oddsFeed.list[k].awayTeamId
              /\ CanonicalTeam(oddsGames[k].homeTeam)
              /\ CanonicalTeam(oddsGames[k].awayTeam)

\* C19: the status of every stored game is the status upstream reported for it.
C19_StatusVerbatim ==
    (FeedHandled /\ ~oddsThrew) =>
        \A k \in 1..Len(oddsGames) :
            oddsGames[k].gameStatus = oddsFeed.list[k].gameStatus

(***************************************************************************)
(* Properties of the game cards.                                           *)
(***************************************************************************)
\* the games in the lists of the team-detail screen
TeamListGames ==
    {upcomingGames[k] : k \in 1..Len(upcomingGames)} \cup {pastGames[k] : k \in 1..Len(pastGames)}

\* C20: a game card shows a score only when the game is live or final: a game
\* that is still scheduled shows neither score, on the schedule screen and on
\* the team-detail screen.
C20_ScoreOnlyLiveOrFinal ==
    /\ (screen = "schedule" /\ ~loading /\ error = NoError) =>
          \A g \in Games(schedule) :
              (ScheduleShowsScore(g.homeScore) \/ ScheduleShowsScore(g.awayScore))
                  => g.state \in {"in", "post"}
    /\ (screen = "team" /\ ~loading) =>
          \A g \in TeamListGames : TeamShowsScore(g) => g.state \in {"in", "post"}

(***************************************************************************)
(* Properties of the game cards' colour and texts.                         *)
(***************************************************************************)
Urgent == {"#ff4444", "#FF3B30"}

Success == {"#00aa00", "#34C759"}

Neutral == {"#666", "#007AFF"}

\* C21: every status value gets exactly one colour: the urgent one for a Live
\* game, the success one for a Final game, the neutral one for a Scheduled game
\* and for any other status value.
C21_StatusColourTotal ==
    /\ cardScreen \in {"home", "odds"} =>
          /\ cardItem.status = "2" => cardView.color \in Urgent
          /\ cardItem.status = "3" => cardView.color \in Success
          /\ cardItem.status \notin {"2", "3"} => cardView.color \in Neutral
    /\ cardScreen = "schedule" =>
          /\ (cardItem.state = "in" /\ ~cardItem.completed) => cardView.color \in Urgent
          /\ cardItem.completed => cardView.color \in Success
          /\ (cardItem.state # "in" /\ ~cardItem.completed) => cardView.color \in Neutral
    /\ cardScreen # "none" => cardView.color \in Urgent \cup Success \cup Neutral

\* a card whose status is none of Scheduled, Live and Final, in the neutral colour
C21_Witness ==
    /\ cardScreen = "home"
    /\ cardItem.status = "7"
    /\ cardView.color = "#666"

\* C22: formatOdds gives "+" and the digits for a strictly positive value and
\* the plain decimal text for zero and for a negative value: "+150" for 150,
\* "-110" for -110, "0" for 0; its two copies give the same text for the same
\* value.
C22_FormatOdds ==
    cardScreen \in {"home", "odds"} =>
        /\ cardView.odds = HomeFormatOdds(cardItem.odds)
        /\ cardView.odds = OddsFormatOdds(cardItem.odds)
        /\ ~cardItem.odds.nan =>
              /\ (cardView.odds[1] = "+") <=> (cardItem.odds.val > 0)
              /\ ParseFloat(cardView.odds) = cardItem.odds
              /\ cardItem.odds.val <= 0 => cardView.odds = NumberToString(cardItem.odds)
        /\ cardItem.odds = Num(150) => cardView.odds = <<"+", "1", "5", "0">>
        /\ cardItem.odds = Num(0 - 110) => cardView.odds = <<"-", "1", "1", "0">>
        /\ cardItem.odds = Num(0) => cardView.odds = <<"0">>

\* the card of the odds screen showing the odds 0 as "0"
C22_Witness ==
    /\ cardScreen = "odds"
    /\ cardItem.odds = Num(0)
    /\ cardView.odds = <<"0">>

\* C23: the time text of a card whose time token cannot be parsed is the token
\* itself.
C23_UnparsedTokenKept ==
    (cardScreen \in {"home", "odds"} /\ ~ParseTimeToken(cardItem.gameTime).valid) =>
        cardView.time = cardItem.gameTime

(***************************************************************************)
(* Properties of the proxy server.                                         *)
(***************************************************************************)
\* C24: the proxy makes one upstream request per incoming request; it answers
\* 200 with the upstream JSON when the upstream succeeds and 500 with the body
\* {"error": "Failed to fetch NBA data"} when it fails; a request never gets
\* two responses, gets its response when the upstream request has completed,
\* and the server keeps running.
C24_ProxyRelay ==
    /\ proxyRunning
    /\ \A r \in ProxyRequests :
          /\ proxyCalls[r] = (IF proxyPhase[r] = "none" THEN 0 ELSE 1)
          /\ Len(proxySent[r]) = (IF proxyPhase[r] = "done" THEN 1 ELSE 0)
          /\ proxyPhase[r] = "done" =>
                IF proxyData[r].ok
                THEN /\ proxySent[r][1].status = 200
                     /\ JsonParse(proxySent[r][1].body) = JsonParse(proxyData[r].text)
                ELSE proxySent[r][1] = [status |-> 500, body |-> ErrorBody]

\* a request answered 500 after its upstream request failed, and a later
\* request answered with the upstream's games
C24_Witness ==
    \E r1, r2 \in ProxyRequests :
        /\ proxyPhase[r1] = "done" /\ ~proxyData[r1].ok
        /\ proxySent[r1] = <<[status |-> 500, body |-> ErrorBody]>>
        /\ proxyPhase[r2] = "done" /\ proxyData[r2].ok
        /\ Len(JsonParse(proxySent[r2][1].body).games) = 2

(***************************************************************************)
(* Properties of the game-detail modal.                                    *)
(***************************************************************************)
\* C27: the detail data the open modal holds is the summary of the selected
\* game.
C27_DetailOfSelectedGame ==
    (isDetailModalVisible /\ detailedGameData.present) =>
        detailedGameData.event = selectedGameForDetail

\* C28: while the summary request of the press that opened the modal is in
\* flight, isLoadingGameDetails is true.
C28_LoadingWhileLatestPending ==
    (isDetailModalVisible /\ detailCalls # << >> /\ ~detailCalls[Len(detailCalls)].done) =>
        isLoadingGameDetails

(***************************************************************************)
(* Properties of the team-detail screen as a whole.                        *)
(***************************************************************************)
\* C26: "Team not found" is shown only when the team-details request of the
\* mount has failed, never while it is in flight.
C26_NotFoundOnlyAfterFailure ==
    TeamNotFoundShown => (pageOps # << >> /\ pageOps[1].details = "failed")

(***************************************************************************)
(* Properties of the stored schedule.                                      *)
(***************************************************************************)
GamesInDays(days) ==
    LET n[k \in 0..Len(days)] == IF k = 0 THEN 0 ELSE n[k - 1] + Len(days[k].games)
    IN  n[Len(days)]

\* C30: the schedule stored by a run holds every game the run's successful
\* requests returned, as many times as they returned it, holds no other game,
\* and has no empty day group.
C30_ScheduleExact ==
    (RunStored /\ screen = "schedule") =>
        /\ \A k \in 1..Len(allGames) : allGames[k] \in Games(schedule)
        /\ \A g \in Games(schedule) :
              /\ \E k \in 1..Len(allGames) : allGames[k] = g
              /\ CountInDays(schedule, g) = Count(allGames, g)
        /\ GamesInDays(schedule) = Len(allGames)
        /\ \A d \in 1..Len(schedule) : schedule[d].games # << >>

\* a stored schedule of several days, one of them with two games
C30_Witness ==
    /\ screen = "schedule"
    /\ RunStored
    /\ Len(allGames) >= 3
    /\ Len(schedule) >= 2
    /\ \E d \in 1..Len(schedule) : Len(schedule[d].games) >= 2

FlagsClear ==
    /\ screen \in {"schedule", "team"} => ~loading /\ ~refreshing
    /\ screen = "news" => ~newsLoading /\ ~newsRefreshing
    /\ screen = "home" => ~homeLoading /\ ~gamesLoading /\ ~homeRefreshing
    /\ screen = "odds" => ~oddsLoading /\ ~oddsRefreshing
    /\ screen = "teampage" => ~pageLoading /\ ~pageRefreshing
    /\ screen = "teams" => ~tabLoading /\ ~tabRefreshing

\* a step of the user that starts a fetch
FetchStarts ==
    \/ pc = "done" /\ pc' = "await"
    \/ newsStarted' > newsStarted
    \/ Len(homeOps') > Len(homeOps)
    \/ oddsRuns' > oddsRuns
    \/ Len(pageOps') > Len(pageOps)
    \/ Len(tabCalls') > Len(tabCalls)

\* C25: when every issued request completes, the flags of the screen become
\* false again after every load, refresh and retry, and once false they stay
\* false until the user starts the next fetch.
C25_FlagsSettle ==
    /\ []<>FlagsClear
    /\ [][(FlagsClear /\ ~FlagsClear') => FetchStarts]_vars

\* a screen whose flags are false after a refresh that followed the load
C25_Witness ==
    /\ screen = "teams"
    /\ Len(tabCalls) >= 2
    /\ \A k \in 1..Len(tabCalls) : tabCalls[k] # "pending"
    /\ FlagsClear

====
